---- MODULE Spec2Model ----
(***************************************************************************)
(* Search index synchronisation and hybrid retrieval of tisoda-strapi.     *)
(*                                                                         *)
(* The repository holds three coherent revisions of the Place sync path:   *)
(*   "meili"     keyword hooks  -> syncToMeili  -> MeiliService            *)
(*   "qdrantNum" vector hooks   -> syncToQdrant (numeric id) -> Qdrant     *)
(*   "qdrantDoc" vector hooks   -> syncToQdrant (documentId) -> Qdrant     *)
(* A deployment runs exactly one of them; rev names it.                    *)
(***************************************************************************)
EXTENDS Integers, Sequences, FiniteSets, TLC

VARIABLES
  rev,        \* the deployed revision of the hooks and the place service
  store,      \* content store: Place -> [st, data]
  kwIndex,    \* keyword index: set of documents, primary key documentId
  vecIndex,   \* vector collection: set of points [id, vector, payload]
  meiliInit,  \* MeiliService.initialized
  lastEv,     \* what the last lifecycle hook did (history)
  allOk,      \* no sync or delete operation of a hook has thrown so far (history)
  lastAll,    \* what the last syncAll call returned (history)
  provider,     \* EmbeddingService.provider
  initPromise,  \* EmbeddingService.initPromise: 0 = null, k = the k-th promise created
  promiseState, \* state of each promise created by initialize
  localModel,   \* EmbeddingService.localModel is loaded
  loadsStarted, \* number of pipeline(...) calls made
  epc,          \* position of each caller of generateEmbedding
  awaiting,     \* the promise each caller awaits
  lateJoin,     \* what a call made after a failed load did (history)
  uuidLog,      \* the last two calls of ensureValidUUID: argument and result (history)
  catalog,      \* per Place: unlisted, or how its document reached the keyword index
  request,      \* the search request being handled
  response,     \* the answer to the last request handled, until it is sent
  ctlReq,       \* the HTTP search request being handled
  ctlRes,       \* the response of the search controller, until it is sent
  collExists,   \* the collection exists in the vector backend
  collIndexes,  \* the payload indexes of the collection
  createCount,  \* number of times the collection was created
  ipc,          \* position of each caller of initCollection
  hpc,          \* position of each overlapping lifecycle handler, and the content it read
  bootVectorSize,\* vector size of the collection in the backend, 0 = no collection
  bootPc,       \* startup: starting, started, or started although initCollection failed
  bootOps       \* the last upsert or search of each caller: collection size at the call, outcome

syncVars == <<rev, store, kwIndex, vecIndex, meiliInit, lastEv, allOk, lastAll>>
embVars == <<provider, initPromise, promiseState, localModel, loadsStarted, epc, awaiting, lateJoin>>

uuidVars == <<uuidLog>>

searchVars == <<catalog, request, response>>

ctlVars == <<ctlReq, ctlRes>>

collVars == <<collExists, collIndexes, createCount, ipc>>

raceVars == <<hpc>>

bootVars == <<bootVectorSize, bootPc, bootOps>>

nonSyncVars == <<embVars, uuidVars, searchVars, ctlVars, collVars, raceVars, bootVars>>
nonEmbVars == <<syncVars, uuidVars, searchVars, ctlVars, collVars, raceVars, bootVars>>
nonUuidVars == <<syncVars, embVars, searchVars, ctlVars, collVars, raceVars, bootVars>>
nonSearchVars == <<syncVars, embVars, uuidVars, ctlVars, collVars, raceVars, bootVars>>

nonCtlVars == <<syncVars, embVars, uuidVars, searchVars, collVars, raceVars, bootVars>>

nonCollVars == <<syncVars, embVars, uuidVars, searchVars, ctlVars, raceVars, bootVars>>

nonRaceVars == <<syncVars, embVars, uuidVars, searchVars, ctlVars, collVars, bootVars>>
nonSyncRaceVars == <<embVars, uuidVars, searchVars, ctlVars, collVars, bootVars>>

nonBootVars == <<syncVars, embVars, uuidVars, searchVars, ctlVars, collVars, raceVars>>

vars == <<syncVars, embVars, uuidVars, searchVars, ctlVars, collVars, raceVars, bootVars>>

----------------------------------------------------------------------------
(* Bounds *)

NumPlaces == 2
NumHookPlaces == 1
MaxData == 2
NumCallers == 3
NumIds == 2
NumSearchPlaces == 4
MaxSearchData == 3
MaxLimit == 2
MaxOffset == 3
MaxRawParams == 1
NumInitCallers == 2
NumHandlers == 2

Places == 1..NumPlaces
(* the Places that receive lifecycle events in SpecSync *)
HookPlaces == 1..NumHookPlaces
DataVals == 1..MaxData
Revs == {"meili", "qdrantNum", "qdrantDoc"}

(* JavaScript null / undefined of a string-valued or numeric field *)
Null == "<null>"
NoNum == -1
(* not-a-number, as parseFloat / parseInt return it *)
NaN == -2

----------------------------------------------------------------------------
(* Sequence helpers *)

RECURSIVE SeqFilterTruthy(_)
SeqFilterTruthy(s) ==
  IF s = <<>> THEN <<>>
  ELSE IF Head(s) # Null /\ Head(s) # ""
       THEN <<Head(s)>> \o SeqFilterTruthy(Tail(s))
       ELSE SeqFilterTruthy(Tail(s))

Contains(s, x) == \E i \in 1..Len(s) : s[i] = x

RECURSIVE DedupFrom(_, _)
DedupFrom(s, acc) ==
  IF s = <<>> THEN acc
  ELSE DedupFrom(Tail(s), IF Contains(acc, Head(s)) THEN acc ELSE Append(acc, Head(s)))

NewSet(s) == DedupFrom(s, <<>>)

RECURSIVE JoinSp(_)
JoinSp(s) ==
  IF s = <<>> THEN ""
  ELSE IF Len(s) = 1 THEN Head(s)
  ELSE Head(s) \o " " \o JoinSp(Tail(s))

Trim(x) ==
  CASE x = "Massage " -> "Massage"
    [] x = " Cut"     -> "Cut"
    [] x = " "        -> ""
    [] OTHER          -> x

OrEmpty(x) == IF x = Null THEN "" ELSE x
NumOrZero(x) == IF x = NoNum THEN 0 ELSE x

----------------------------------------------------------------------------
(* Identifiers.  A string identifier is a sequence of one-character        *)
(* strings; a value handed to the vector adapter is tagged with its        *)
(* JavaScript type: [str |-> chars] or [num |-> n].                        *)

HexLower == <<"0","1","2","3","4","5","6","7","8","9","a","b","c","d","e","f">>
HexChars == {HexLower[i] : i \in 1..16} \cup {"A","B","C","D","E","F"}
DigitChar(n) == HexLower[(n % 10) + 1]

CharCode(c) ==
  CASE c = "-" -> 45
    [] c = "0" -> 48 [] c = "1" -> 49 [] c = "2" -> 50 [] c = "3" -> 51
    [] c = "4" -> 52 [] c = "5" -> 53 [] c = "6" -> 54 [] c = "7" -> 55
    [] c = "8" -> 56 [] c = "9" -> 57
    [] c = "A" -> 65 [] c = "B" -> 66 [] c = "C" -> 67 [] c = "D" -> 68
    [] c = "E" -> 69 [] c = "F" -> 70
    [] c = "a" -> 97 [] c = "b" -> 98 [] c = "c" -> 99 [] c = "d" -> 100
    [] c = "e" -> 101 [] c = "f" -> 102 [] c = "g" -> 103
    [] c = "o" -> 111 [] c = "p" -> 112
    [] OTHER -> 63

StrVal(chars) == [str |-> chars]
NumVal(n) == [num |-> n]
IsStr(v) == "str" \in DOMAIN v

(* String(v): the coercion RegExp.prototype.test applies to its argument *)
RECURSIVE Digits(_)
Digits(n) == IF n < 10 THEN <<DigitChar(n)>> ELSE Append(Digits(n \div 10), DigitChar(n))

ToChars(v) == IF IsStr(v) THEN v.str ELSE Digits(v.num)

(* documentId and numeric id of Place p *)
DocId(p) == <<"d", "o", "c", DigitChar(p)>>
NumId(p) == p

(* /^[0-9a-f]{8}-[0-9a-f]{4}-[1-5][0-9a-f]{3}-[89ab][0-9a-f]{3}-[0-9a-f]{12}$/i *)
uuidRegexTest(s) ==
  /\ Len(s) = 36
  /\ \A i \in 1..36 :
       IF i \in {9, 14, 19, 24} THEN s[i] = "-"
       ELSE IF i = 15 THEN s[i] \in {"1", "2", "3", "4", "5"}
       ELSE IF i = 20 THEN s[i] \in {"8", "9", "a", "b", "A", "B"}
       ELSE s[i] \in HexChars

(* createHash('md5').update(s).digest('hex'): 32 lower-case hex digits, a  *)
(* deterministic function of the characters of s (the digest itself is the *)
(* library's; a positional checksum stands for it, its first five digits   *)
(* spelling the checksum so that different checksums give different        *)
(* digests).                                                               *)
RECURSIVE WeightedSum(_, _)
WeightedSum(s, j) ==
  IF j > Len(s) THEN 0
  ELSE CharCode(s[j]) * j + WeightedSum(s, j + 1)

Md5Hex(s) ==
  LET w == WeightedSum(s, 1)
  IN  [i \in 1..32 |->
         HexLower[(IF i <= 5 THEN (w \div (16 ^ (i - 1))) % 16
                   ELSE (w * i + 7 * i + Len(s)) % 16) + 1]]

(* md5 hex re-grouped 8-4-4-4-12 and joined with '-' *)
HashToUuid(h) ==
  SubSeq(h, 1, 8) \o <<"-">> \o SubSeq(h, 9, 12) \o <<"-">> \o SubSeq(h, 13, 16)
    \o <<"-">> \o SubSeq(h, 17, 20) \o <<"-">> \o SubSeq(h, 21, 32)

(* Hash.update accepts a string or a buffer; any other type is a TypeError *)
HashUpdateThrows(v) == ~IsStr(v)

(* Mutant: the shape test is skipped and every identifier is hashed *)
ensureValidUUID_AlwaysHash(v) == HashToUuid(Md5Hex(ToChars(v)))

(* QdrantService.ensureValidUUID, defined where it does not throw *)
ensureValidUUID(v) ==
  IF uuidRegexTest(ToChars(v)) THEN v.str
  ELSE HashToUuid(Md5Hex(ToChars(v)))

ensureValidUUIDThrows(v) == ~uuidRegexTest(ToChars(v)) /\ HashUpdateThrows(v)

----------------------------------------------------------------------------
(* Place content.  A Place of the content store carries a content version  *)
(* v; Content(v) is the populated entity findOne returns for it.           *)

PlaceNames == <<"Relax Spa", "Hair Hub", "Nail Bar">>

Content(v) ==
  [ name |-> PlaceNames[(v % 3) + 1],
    service_group_description |-> IF v % 3 = 0 THEN "care" ELSE Null,
    services |->
      IF v % 2 = 1
      THEN << [service_name |-> "Massage",  service_group_name |-> "Body"],
              [service_name |-> "Massage ", service_group_name |-> "Body"],
              [service_name |-> Null,       service_group_name |-> " "] >>
      ELSE << [service_name |-> " Cut",     service_group_name |-> Null] >>,
    category_places |->
      IF v % 2 = 1 THEN << [name |-> "Beauty", slug |-> "beauty"] >>
      ELSE << [name |-> "Hair", slug |-> Null] >>,
    address |->
      [ address  |-> IF v % 2 = 1 THEN "12 Le Loi" ELSE Null,
        city     |-> IF v % 2 = 1 THEN "HCM" ELSE Null,
        province |-> IF v % 2 = 1 THEN "ho-chi-minh" ELSE Null,
        district |-> IF v % 2 = 1 THEN "quan-1" ELSE Null,
        ward     |-> Null,
        latitude |-> IF v % 2 = 1 THEN 10 + v ELSE NoNum,
        longitude |-> IF v % 2 = 1 THEN 106 ELSE NoNum ],
    rating |-> IF v % 3 = 2 THEN NoNum ELSE v,
    quantity_sold |-> IF v % 3 = 2 THEN NoNum ELSE 10 * v ]

(* the entity as the content store hands it to the place service *)
Entity(p, v) == [id |-> NumId(p), documentId |-> DocId(p), c |-> Content(v)]

(* JSON.stringify of a text value *)
JsonStringify(x) == "\"" \o x \o "\""

MapServiceName(svcs) == [i \in 1..Len(svcs) |-> svcs[i].service_name]
MapServiceGroup(svcs) == [i \in 1..Len(svcs) |-> svcs[i].service_group_name]
MapTrim(s) == [i \in 1..Len(s) |-> Trim(s[i])]
MapSlugOrName(cats) ==
  [i \in 1..Len(cats) |-> IF cats[i].slug # Null /\ cats[i].slug # "" THEN cats[i].slug ELSE cats[i].name]
MapCatName(cats) == [i \in 1..Len(cats) |-> cats[i].name]

DescriptionOf(c) ==
  IF c.service_group_description # Null /\ c.service_group_description # ""
  THEN JsonStringify(c.service_group_description) ELSE ""

(* syncToMeili: "Map to Meili document format" *)
MeiliDoc(e) ==
  [ documentId        |-> e.documentId,
    name              |-> OrEmpty(e.c.name),
    description       |-> DescriptionOf(e.c),
    serviceNames      |-> NewSet(MapTrim(SeqFilterTruthy(MapServiceName(e.c.services)))),
    serviceGroupNames |-> NewSet(MapTrim(SeqFilterTruthy(MapServiceGroup(e.c.services)))),
    categoryNames     |-> SeqFilterTruthy(MapCatName(e.c.category_places)),
    categories        |-> MapSlugOrName(e.c.category_places),
    address           |-> OrEmpty(e.c.address.address),
    city              |-> OrEmpty(e.c.address.city),
    province          |-> OrEmpty(e.c.address.province),
    district          |-> OrEmpty(e.c.address.district),
    ward              |-> OrEmpty(e.c.address.ward),
    location          |-> [lat |-> NumOrZero(e.c.address.latitude),
                           lon |-> NumOrZero(e.c.address.longitude)],
    rating            |-> NumOrZero(e.c.rating),
    quantitySold      |-> NumOrZero(e.c.quantity_sold) ]

(* syncToQdrant (documentId revision): "Prepare data for Qdrant" *)
PlaceVectorDoc(e) ==
  [ document_id       |-> e.documentId,
    name              |-> OrEmpty(e.c.name),
    description       |-> DescriptionOf(e.c),
    categories        |-> MapSlugOrName(e.c.category_places),
    address           |-> OrEmpty(e.c.address.address),
    city              |-> OrEmpty(e.c.address.city),
    province          |-> OrEmpty(e.c.address.province),
    district          |-> OrEmpty(e.c.address.district),
    ward              |-> OrEmpty(e.c.address.ward),
    latitude          |-> NumOrZero(e.c.address.latitude),
    longitude         |-> NumOrZero(e.c.address.longitude),
    rating            |-> NumOrZero(e.c.rating),
    quantitySold      |-> NumOrZero(e.c.quantity_sold),
    serviceNames      |-> SeqFilterTruthy(MapServiceName(e.c.services)),
    serviceGroupNames |-> NewSet(SeqFilterTruthy(MapServiceGroup(e.c.services))),
    categoryNames     |-> SeqFilterTruthy(MapCatName(e.c.category_places)) ]

(* syncToQdrant (numeric-id revision): "Prepare data for Qdrant" *)
PlaceVectorNum(e) ==
  [ id           |-> e.id,
    name         |-> OrEmpty(e.c.name),
    description  |-> DescriptionOf(e.c),
    categories   |-> MapCatName(e.c.category_places),
    address      |-> OrEmpty(e.c.address.address),
    city         |-> OrEmpty(e.c.address.city),
    latitude     |-> NumOrZero(e.c.address.latitude),
    longitude    |-> NumOrZero(e.c.address.longitude),
    rating       |-> NumOrZero(e.c.rating),
    quantitySold |-> NumOrZero(e.c.quantity_sold) ]

(* QdrantService.createSearchText, documentId revision *)
createSearchText(pv) ==
  JoinSp(SeqFilterTruthy(<< pv.name, JoinSp(pv.serviceNames), JoinSp(pv.serviceGroupNames),
                            JoinSp(pv.categoryNames), JoinSp(pv.categories), pv.description,
                            pv.address, pv.city, pv.province, pv.district, pv.ward >>))

(* QdrantService.createSearchText, numeric-id revision *)
createSearchTextNum(pv) ==
  JoinSp(SeqFilterTruthy(<< pv.name, pv.description, pv.address, pv.city,
                            JoinSp(pv.categories) >>))

(* The embedding backend: a vector that is a function of the text alone *)
Embed(text) == [of |-> text]

(* the point QdrantService.upsertPlace writes, documentId revision *)
PointDoc(pv, id, embedding) ==
  [ id |-> id, vector |-> embedding,
    payload |-> [ documentId |-> pv.document_id, name |-> pv.name,
                  description |-> pv.description, categories |-> pv.categories,
                  address |-> pv.address, city |-> pv.city,
                  province |-> pv.province, district |-> pv.district, ward |-> pv.ward,
                  location |-> [lat |-> pv.latitude, lon |-> pv.longitude],
                  rating |-> pv.rating, quantitySold |-> pv.quantitySold,
                  serviceNames |-> pv.serviceNames,
                  serviceGroupNames |-> pv.serviceGroupNames,
                  categoryNames |-> pv.categoryNames ] ]

(* the point QdrantService.upsertPlace writes, numeric-id revision *)
PointNum(pv, embedding) ==
  [ id |-> pv.id, vector |-> embedding,
    payload |-> [ name |-> pv.name, description |-> pv.description,
                  categories |-> pv.categories, address |-> pv.address,
                  city |-> pv.city,
                  location |-> [lat |-> pv.latitude, lon |-> pv.longitude],
                  rating |-> pv.rating, quantitySold |-> pv.quantitySold ] ]

----------------------------------------------------------------------------
(* Outcome of a handler.  An outcome carries the index state the handler   *)
(* has produced so far, whether an exception is in flight (threw), whether *)
(* one was caught and logged on the way (caught), and which adapter        *)
(* operations were called: "none", "failed" (it threw) or "applied".       *)
(* f names the call of the handler that the environment makes fail.        *)

FailPoints == {"none", "findOne", "initIndex", "embed", "write"}

Start(kw, vec, mi) ==
  [ kw |-> kw, vec |-> vec, mi |-> mi, threw |-> FALSE, caught |-> FALSE,
    kwUp |-> "none", kwDel |-> "none", vecUp |-> "none", vecDel |-> "none" ]

Throw(o) == [o EXCEPT !.threw = TRUE]

(* Mutant: no try/catch around the hook body *)
CatchAndLog_Rethrow(o) == [o EXCEPT !.caught = o.threw]

(* try { ... } catch (error) { strapi.log.error(...) } *)
CatchAndLog(o) == [o EXCEPT !.threw = FALSE, !.caught = o.threw]

(* ---- MeiliService ---- *)

(* index.addDocuments: add or replace by primary key documentId *)
AddDocuments(idx, docs) ==
  {d \in idx : \A i \in 1..Len(docs) : docs[i].documentId # d.documentId}
    \cup {docs[i] : i \in 1..Len(docs)}

DeleteDocument(idx, documentId) == {d \in idx : d.documentId # documentId}

MeiliInitIndex(o, f) ==
  IF f = "initIndex" THEN Throw(o) ELSE [o EXCEPT !.mi = TRUE]

(* initIndex on first use; its failure is swallowed and initialized set *)
MeiliEnsureInit(o) == [o EXCEPT !.mi = TRUE]

(* Mutant: the empty-batch early return is taken for every batch *)
MeiliUpsertPlaces_Skip(o, docs, f) == o

MeiliUpsertPlaces(o, docs, f) ==
  IF Len(docs) = 0 THEN o
  ELSE LET o1 == MeiliEnsureInit(o) IN
       IF f = "write" THEN [Throw(o1) EXCEPT !.kwUp = "failed"]
       ELSE [o1 EXCEPT !.kw = AddDocuments(o1.kw, docs), !.kwUp = "applied"]

MeiliUpsertPlace(o, doc, f) == MeiliUpsertPlaces(o, <<doc>>, f)

MeiliDeletePlace(o, documentId, f) ==
  LET o1 == MeiliEnsureInit(o) IN
  IF f = "write" THEN [Throw(o1) EXCEPT !.kwDel = "failed"]
  ELSE [o1 EXCEPT !.kw = DeleteDocument(o1.kw, documentId), !.kwDel = "applied"]

(* ---- QdrantService ---- *)

(* client.upsert: insert or overwrite the point with this id *)
UpsertPoint(coll, pt) == {q \in coll : q.id # pt.id} \cup {pt}

DeletePoint(coll, id) == {q \in coll : q.id # id}

(* Mutant: the point id is a fresh random UUID instead of the mapped id *)
PointIdOf_Random(coll, documentId) == <<"r", DigitChar(Cardinality(coll))>>

(* the point id upsertPlace uses for a document identifier *)
PointIdOf(coll, documentId) == ensureValidUUID(StrVal(documentId))

QdrantUpsertPlaceDoc(o, pv, f) ==
  IF f = "embed" THEN [Throw(o) EXCEPT !.vecUp = "failed"]
  ELSE IF f = "write" THEN [Throw(o) EXCEPT !.vecUp = "failed"]
  ELSE [o EXCEPT !.vec = UpsertPoint(o.vec, PointDoc(pv, PointIdOf(o.vec, pv.document_id),
                                                      Embed(createSearchText(pv)))),
                 !.vecUp = "applied"]

(* deletePlace(documentId): v is the value the caller passes *)
QdrantDeletePlaceDoc(o, v, f) ==
  IF ensureValidUUIDThrows(v) THEN [Throw(o) EXCEPT !.vecDel = "failed"]
  ELSE IF f = "write" THEN [Throw(o) EXCEPT !.vecDel = "failed"]
  ELSE [o EXCEPT !.vec = DeletePoint(o.vec, ensureValidUUID(v)), !.vecDel = "applied"]

QdrantUpsertPlaceNum(o, pv, f) ==
  IF f = "embed" THEN [Throw(o) EXCEPT !.vecUp = "failed"]
  ELSE IF f = "write" THEN [Throw(o) EXCEPT !.vecUp = "failed"]
  ELSE [o EXCEPT !.vec = UpsertPoint(o.vec, PointNum(pv, Embed(createSearchTextNum(pv)))),
                 !.vecUp = "applied"]

QdrantDeletePlaceNum(o, placeId, f) ==
  IF f = "write" THEN [Throw(o) EXCEPT !.vecDel = "failed"]
  ELSE [o EXCEPT !.vec = DeletePoint(o.vec, placeId), !.vecDel = "applied"]

(* ---- place service: per-place sync ---- *)

IsPublished(st, p) == st[p].st = "published"
Exists(st, p) == st[p].st \in {"draft", "published"}

(* Mutant: a Place that is not published is left in the index *)
syncToMeili_NoDelete(o, st, p, f) ==
  IF f = "findOne" THEN Throw(o)
  ELSE IF ~IsPublished(st, p) THEN o
  ELSE LET o1 == MeiliInitIndex(o, f) IN
       IF o1.threw THEN o1
       ELSE MeiliUpsertPlace(o1, MeiliDoc(Entity(p, st[p].data)), f)

(* syncToMeili(placeDocumentId) *)
syncToMeili(o, st, p, f) ==
  IF f = "findOne" THEN Throw(o)
  ELSE IF ~IsPublished(st, p) THEN MeiliDeletePlace(o, DocId(p), f)
  ELSE LET o1 == MeiliInitIndex(o, f) IN
       IF o1.threw THEN o1
       ELSE MeiliUpsertPlace(o1, MeiliDoc(Entity(p, st[p].data)), f)

(* syncToQdrant of the keyword revision: reads the place, writes nothing *)
syncToQdrantStub(o, st, p, f) ==
  IF f = "findOne" THEN Throw(o) ELSE o

(* syncToQdrant(placeDocumentId), documentId revision *)
syncToQdrantDoc(o, st, p, f) ==
  IF f = "findOne" THEN Throw(o)
  ELSE IF ~IsPublished(st, p) THEN QdrantDeletePlaceDoc(o, StrVal(DocId(p)), f)
  ELSE QdrantUpsertPlaceDoc(o, PlaceVectorDoc(Entity(p, st[p].data)), f)

(* syncToQdrant(placeId), numeric-id revision *)
syncToQdrantNum(o, st, p, f) ==
  IF f = "findOne" THEN Throw(o)
  ELSE IF ~Exists(st, p) THEN Throw(o)
  ELSE QdrantUpsertPlaceNum(o, PlaceVectorNum(Entity(p, st[p].data)), f)

(* ---- lifecycle hooks; pub is the publish state the event's result carries ---- *)

afterCreateMeili(o, st, p, pub, f) == CatchAndLog(syncToMeili(o, st, p, f))
afterUpdateMeili(o, st, p, pub, f) == CatchAndLog(syncToMeili(o, st, p, f))
afterDeleteMeili(o, st, p, f) == CatchAndLog(MeiliDeletePlace(o, DocId(p), f))

afterCreateNum(o, st, p, pub, f) ==
  CatchAndLog(IF pub THEN syncToQdrantNum(o, st, p, f) ELSE o)
afterUpdateNum(o, st, p, pub, f) ==
  CatchAndLog(IF pub THEN syncToQdrantNum(o, st, p, f)
              ELSE QdrantDeletePlaceNum(o, NumId(p), f))
afterDeleteNum(o, st, p, f) == CatchAndLog(QdrantDeletePlaceNum(o, NumId(p), f))

afterCreateDoc(o, st, p, pub, f) ==
  CatchAndLog(IF pub THEN syncToQdrantDoc(o, st, p, f) ELSE o)
afterUpdateDoc(o, st, p, pub, f) ==
  CatchAndLog(IF pub THEN syncToQdrantDoc(o, st, p, f)
              ELSE QdrantDeletePlaceDoc(o, NumVal(NumId(p)), f))
afterDeleteDoc(o, st, p, f) == CatchAndLog(QdrantDeletePlaceDoc(o, NumVal(NumId(p)), f))

afterCreate(r, o, st, p, pub, f) ==
  CASE r = "meili"     -> afterCreateMeili(o, st, p, pub, f)
    [] r = "qdrantNum" -> afterCreateNum(o, st, p, pub, f)
    [] r = "qdrantDoc" -> afterCreateDoc(o, st, p, pub, f)

afterUpdate(r, o, st, p, pub, f) ==
  CASE r = "meili"     -> afterUpdateMeili(o, st, p, pub, f)
    [] r = "qdrantNum" -> afterUpdateNum(o, st, p, pub, f)
    [] r = "qdrantDoc" -> afterUpdateDoc(o, st, p, pub, f)

afterDelete(r, o, st, p, f) ==
  CASE r = "meili"     -> afterDeleteMeili(o, st, p, f)
    [] r = "qdrantNum" -> afterDeleteNum(o, st, p, f)
    [] r = "qdrantDoc" -> afterDeleteDoc(o, st, p, f)

----------------------------------------------------------------------------
(* syncAll controller *)

RECURSIVE PublishedFrom(_, _)
PublishedFrom(st, p) ==
  IF p > NumPlaces THEN <<>>
  ELSE (IF IsPublished(st, p) THEN <<p>> ELSE <<>>) \o PublishedFrom(st, p + 1)

(* findMany({status: 'published'}) *)
FindManyPublished(st) == PublishedFrom(st, 1)

(* the syncToQdrant the deployed place service provides *)
syncToQdrant(r, o, st, p, f) ==
  CASE r = "meili"     -> syncToQdrantStub(o, st, p, f)
    [] r = "qdrantNum" -> syncToQdrantNum(o, st, p, f)
    [] r = "qdrantDoc" -> syncToQdrantDoc(o, st, p, f)

(* Mutant: no try/catch inside the loop, the first failure ends the batch *)
OnSyncError_Abort(acc) == [acc EXCEPT !.raised = TRUE]

(* catch (error) { log; failed++ } *)
OnSyncError(acc) ==
  [acc EXCEPT !.failed = @ + 1, !.o.threw = FALSE, !.o.caught = TRUE]

RECURSIVE syncAllLoop(_, _, _, _, _)
syncAllLoop(r, acc, st, todo, fs) ==
  IF todo = <<>> \/ acc.raised THEN acc
  ELSE LET p  == Head(todo)
           o1 == syncToQdrant(r, acc.o, st, p, fs[p])
           a1 == [acc EXCEPT !.o = o1, !.attempted = @ \cup {p}]
           a2 == IF o1.threw
                 THEN OnSyncError([a1 EXCEPT !.threwSet = @ \cup {p}])
                 ELSE [a1 EXCEPT !.synced = @ + 1]
       IN syncAllLoop(r, a2, st, Tail(todo), fs)

(* syncAll(ctx): fm = the findMany call fails *)
syncAll(r, o, st, fm, fs) ==
  IF fm
  THEN [ o |-> o, synced |-> 0, failed |-> 0, total |-> 0, attempted |-> {}, threwSet |-> {},
         raised |-> (r # "qdrantNum"), status |-> 500 ]
  ELSE LET places == FindManyPublished(st)
           acc == syncAllLoop(r, [ o |-> o, synced |-> 0, failed |-> 0, attempted |-> {},
                                   threwSet |-> {}, raised |-> FALSE ], st, places, fs)
       IN [ o |-> acc.o, synced |-> acc.synced, failed |-> acc.failed, total |-> Len(places),
            attempted |-> acc.attempted, threwSet |-> acc.threwSet,
            raised |-> acc.raised, status |-> IF acc.raised THEN 500 ELSE 200 ]

----------------------------------------------------------------------------
(* Search.  The catalogue says, for each Place, whether it is published    *)
(* and how its document reached the keyword index.                         *)

SearchPlaces == 1..NumSearchPlaces

(* the content of Place p in the catalogue *)
DataOf(p) == ((p - 1) % MaxSearchData) + 1

Unlisted == "unlisted"
CatalogEntries == {Unlisted, "bulk", "hook"}

Listed(cat) == {p \in SearchPlaces : cat[p] # Unlisted}

(* display name of a province / district / ward codename *)
DisplayName(codename) ==
  CASE codename = "ho-chi-minh" -> "Ho Chi Minh"
    [] codename = "quan-1" -> "Quan 1"
    [] OTHER -> ""

FacetOf(codename) ==
  IF codename = Null THEN "" ELSE codename \o "|" \o DisplayName(codename)

(* syncMeili: the document of the bulk synchronisation *)
MeiliBulkDoc(e) ==
  MeiliDoc(e) @@
  [ cityFacet     |-> OrEmpty(e.c.address.city),
    provinceFacet |-> FacetOf(e.c.address.province),
    districtFacet |-> FacetOf(e.c.address.district),
    wardFacet     |-> FacetOf(e.c.address.ward) ]

(* the keyword index that holds the catalogue, in document insertion order *)
IndexDocs(cat) ==
  [p \in Listed(cat) |->
     IF cat[p] = "bulk" THEN MeiliBulkDoc(Entity(p, DataOf(p)))
     ELSE MeiliDoc(Entity(p, DataOf(p)))]

(* stable sort of a sequence of [k, x] records by ascending k, as          *)
(* Array.prototype.sort with a comparator a.k - b.k                         *)
RECURSIVE InsertByKey(_, _)
InsertByKey(t, e) ==
  IF t = <<>> THEN <<e>>
  ELSE IF e.k < t[Len(t)].k
       THEN Append(InsertByKey(SubSeq(t, 1, Len(t) - 1), e), t[Len(t)])
       ELSE Append(t, e)

RECURSIVE SortByKey(_)
SortByKey(s) ==
  IF s = <<>> THEN <<>>
  ELSE InsertByKey(SortByKey(SubSeq(s, 1, Len(s) - 1)), s[Len(s)])

(* Array.prototype.slice(from, to) of a sequence indexed from 0 *)
Slice(s, from, to) ==
  SubSeq(s, (IF from < Len(s) THEN from ELSE Len(s)) + 1, IF to < Len(s) THEN to ELSE Len(s))

(* the ascending sequence of a set of Place numbers *)
RECURSIVE SetToSeq(_)
SetToSeq(S) ==
  IF S = {} THEN <<>>
  ELSE LET m == CHOOSE x \in S : \A y \in S : x <= y
       IN  <<m>> \o SetToSeq(S \ {m})

(* the engine's tokenizer: the text holds the query word *)
TextHas(text, q) ==
  \/ q = "spa" /\ text = "Relax Spa"
  \/ q = "hair" /\ text \in {"Hair Hub", "Hair"}
  \/ q = "massage" /\ text = "Massage"

(* updateSettings: searchableAttributes, in priority order *)
SearchableTexts(doc) ==
  << doc.serviceNames, <<doc.name>>, doc.serviceGroupNames, doc.categoryNames,
     doc.categories, <<doc.description>>, <<doc.address>>, <<doc.city>>,
     <<doc.province>>, <<doc.district>>, <<doc.ward>> >>

(* rank of the first searchable attribute that holds the query word, 0 for *)
(* no match; the empty query is a placeholder search matching everything   *)
AttributeRank(doc, q) ==
  IF q = "" THEN 1
  ELSE LET texts == SearchableTexts(doc)
           hit == {i \in 1..Len(texts) : \E j \in 1..Len(texts[i]) : TextHas(texts[i][j], q)}
       IN  IF hit = {} THEN 0 ELSE CHOOSE i \in hit : \A j \in hit : i <= j

(* the filter expression MeiliService.search builds, applied to a document *)
PassesMeiliFilter(doc, f) ==
  /\ f.categories # <<>> => \E i \in 1..Len(doc.categories) : Contains(f.categories, doc.categories[i])
  /\ (f.province # Null /\ f.province # "") => doc.province = f.province
  /\ (f.district # Null /\ f.district # "") => doc.district = f.district
  /\ (f.ward # Null /\ f.ward # "") => doc.ward = f.ward
  /\ f.minRating # NoNum => doc.rating >= f.minRating

NoFilter == [categories |-> <<>>, province |-> Null, district |-> Null, ward |-> Null, minRating |-> NoNum]

(* sortParam of MeiliService.search, as the value the 'sort' rule orders by *)
SortValue(doc, sortBy) ==
  IF sortBy = "rating" THEN doc.rating
  ELSE IF sortBy = "popular" THEN doc.quantitySold
  ELSE 0

(* index.search: rankingRules order the matches by attribute, then by the  *)
(* descending sort value, then by insertion order                          *)
IndexRanked(docs, q, f, sortBy) ==
  LET match == {p \in DOMAIN docs : AttributeRank(docs[p], q) # 0 /\ PassesMeiliFilter(docs[p], f)}
      keyed == [i \in 1..Cardinality(match) |->
                  LET p == SetToSeq(match)[i]
                  IN  [k |-> AttributeRank(docs[p], q) * 1000 - SortValue(docs[p], sortBy), x |-> p]]
      sorted == SortByKey(keyed)
  IN  [i \in 1..Len(sorted) |-> sorted[i].x]

FacetFields == {"cityFacet", "provinceFacet", "districtFacet", "wardFacet"}

(* facetDistribution of index.search: per facet field, the number of       *)
(* matching documents carrying each value                                  *)
FacetCounts(docs, match) ==
  [fld \in FacetFields |->
     LET have == {p \in match : fld \in DOMAIN docs[p]}
     IN  {<<docs[p][fld], Cardinality({r \in have : docs[r][fld] = docs[p][fld]})>> : p \in have}]

(* Mutant: the facet query carries the filters of the hit query *)
FacetQueryFilter_Same(f) == f

(* the second index.search of MeiliService.search: "No filters" *)
FacetQueryFilter(f) == NoFilter

(* MeiliService.search *)
MeiliSearch(docs, prm) ==
  LET f == [categories |-> prm.categories, province |-> prm.province,
            district |-> prm.district, ward |-> prm.ward, minRating |-> prm.minRating]
      ranked == IndexRanked(docs, prm.query, f, prm.sortBy)
      hits == Slice(ranked, prm.offset, prm.offset + prm.limit)
      facetMatch == IndexRanked(docs, prm.query, FacetQueryFilter(f), "none")
  IN  [ hits |-> hits,
        totalHits |-> IF Len(ranked) # 0 THEN Len(ranked) ELSE Len(hits),
        facetDistribution |-> FacetCounts(docs, {facetMatch[i] : i \in 1..Len(facetMatch)}) ]

Abs(x) == IF x < 0 THEN -x ELSE x

(* the great-circle distance in km, at 111 km per degree of a grid *)
Haversine(lat1, lon1, lat2, lon2) == 111 * (Abs(lat2 - lat1) + Abs(lon2 - lon1))

Falsy(n) == n = NoNum \/ n = 0

(* calculateDistance: null (NoNum) when a coordinate is missing or zero *)
calculateDistance(lat1, lon1, lat2, lon2) ==
  IF Falsy(lat1) \/ Falsy(lon1) \/ Falsy(lat2) \/ Falsy(lon2) THEN NoNum
  ELSE Haversine(lat1, lon1, lat2, lon2)

Infinity == 1000000

(* the key the comparator of the requested sort orders by, ascending *)
SortKey(sortBy, pw) ==
  IF sortBy = "rating" THEN 0 - NumOrZero(pw.rating)
  ELSE IF sortBy = "distance" THEN (IF Falsy(pw.distance) THEN Infinity ELSE pw.distance)
  ELSE IF sortBy = "popular" THEN 0 - NumOrZero(pw.quantity_sold)
  ELSE 0 - pw.searchScore

(* placesWithScore.sort(...) *)
SortPlaces(sortBy, pws) ==
  LET sorted == SortByKey([i \in 1..Len(pws) |-> [k |-> SortKey(sortBy, pws[i]), x |-> pws[i]]])
  IN  [i \in 1..Len(sorted) |-> sorted[i].x]

(* the index still holds the document of a Place that is no longer         *)
(* published (unpublished or deleted since its last synchronisation)        *)
Stale == "stale"

(* Mutant: findMany without the published filter *)
StatusPublished_AnyStatus(cat, p) == cat[p] # Unlisted

(* the filter of findMany: status 'published' / publishedAt $notNull *)
StatusPublished(cat, p) == cat[p] \in {"bulk", "hook"}

(* findMany over the given Places, published only, in id order, joined     *)
(* with the score of each and the distance to the user                      *)
PlacesWithScore(cat, ids, scoreOf, prm) ==
  LET found == SetToSeq({p \in ids : StatusPublished(cat, p)})
  IN  [i \in 1..Len(found) |->
         LET c == Content(DataOf(found[i]))
         IN  [ id |-> found[i], rating |-> c.rating, quantity_sold |-> c.quantity_sold,
               searchScore |-> scoreOf[found[i]],
               distance |-> calculateDistance(prm.latitude, prm.longitude,
                                              c.address.latitude, c.address.longitude) ]]

IdsOf(pws) == [i \in 1..Len(pws) |-> pws[i].id]

(* Mutant: the lookup is made whatever the backend returned *)
NoCandidates_Never(hits) == FALSE

(* if (placeIds.length === 0) return ... before findMany *)
NoCandidates(hits) == Len(hits) = 0

(* search of the place service, keyword-first; lookedUp records whether    *)
(* findMany was called                                                      *)
searchKeywordFirst(cat, prm) ==
  LET meiliSort == IF prm.sortBy \in {"rating", "popular"} THEN prm.sortBy ELSE "none"
      meiliResult == MeiliSearch(IndexDocs(cat),
                       [prm EXCEPT !.limit = prm.limit * 3, !.offset = 0, !.sortBy = meiliSort])
      hits == meiliResult.hits
      totalHits == IF meiliResult.totalHits # 0 THEN meiliResult.totalHits ELSE Len(hits)
      pws == PlacesWithScore(cat, {hits[i] : i \in 1..Len(hits)}, [p \in SearchPlaces |-> 1], prm)
      sortedPlaces == SortPlaces(prm.sortBy, pws)
  IN  IF NoCandidates(hits)
      THEN [data |-> <<>>, total |-> 0, candidates |-> Len(hits), lookedUp |-> FALSE]
      ELSE [ data |-> IdsOf(Slice(sortedPlaces, prm.offset, prm.offset + prm.limit)),
             total |-> totalHits, candidates |-> Len(hits), lookedUp |-> TRUE ]

(* the similarity of the query vector and the vector of a point: a number  *)
(* fixed by the query and the text the point was embedded from             *)
Similarity(q, pv) ==
  IF TextHas(pv.name, q) THEN 9
  ELSE IF \E i \in 1..Len(pv.categories) : TextHas(pv.categories[i], q) THEN 6
  ELSE 3

(* QdrantService.searchPlaces, numeric-id revision: the points passing the *)
(* filter by descending score, cut to [offset, offset + limit)             *)
QdrantSearchPlaces(cat, prm) ==
  LET pv(p) == PlaceVectorNum(Entity(p, DataOf(p)))
      pass == {p \in Listed(cat) :
                 /\ (~Falsy(prm.latitude) /\ ~Falsy(prm.longitude)) =>
                      Haversine(prm.latitude, prm.longitude, pv(p).latitude, pv(p).longitude)
                        <= prm.radiusKm
                 /\ (prm.categories # <<>>) =>
                      \E i \in 1..Len(pv(p).categories) : Contains(prm.categories, pv(p).categories[i])
                 /\ ~Falsy(prm.minRating) => pv(p).rating >= prm.minRating}
      asc == SetToSeq(pass)
      sorted == SortByKey([i \in 1..Len(asc) |-> [k |-> 0 - Similarity(prm.query, pv(asc[i])), x |-> asc[i]]])
      window == Slice(sorted, prm.offset, prm.offset + prm.limit)
  IN  [i \in 1..Len(window) |-> [id |-> window[i].x, score |-> 0 - window[i].k]]

(* search of the place service, vector-first *)
searchVectorFirst(cat, prm) ==
  LET results == QdrantSearchPlaces(cat, [prm EXCEPT !.limit = prm.limit * 2])
      scoreOf == [p \in SearchPlaces |->
                    IF \E i \in 1..Len(results) : results[i].id = p
                    THEN (CHOOSE r \in {results[i] : i \in 1..Len(results)} : r.id = p).score
                    ELSE 0]
      pws == PlacesWithScore(cat, {results[i].id : i \in 1..Len(results)}, scoreOf, prm)
      sortedPlaces == SortPlaces(prm.sortBy, pws)
  IN  IF NoCandidates(results)
      THEN [data |-> <<>>, total |-> 0, candidates |-> Len(results), lookedUp |-> FALSE]
      ELSE [ data |-> IdsOf(Slice(sortedPlaces, 0, prm.limit)), total |-> Len(results),
             candidates |-> Len(results), lookedUp |-> TRUE ]

(* the filter conditions of searchPlaces (documentId revision) on the       *)
(* payload pv of a point                                                    *)
PointPasses(prm, pv) ==
  /\ (~Falsy(prm.latitude) /\ ~Falsy(prm.longitude)) =>
       Haversine(prm.latitude, prm.longitude, pv.latitude, pv.longitude) <= prm.radiusKm
  /\ (prm.province # Null /\ prm.province # "") => pv.province = prm.province
  /\ (prm.district # Null /\ prm.district # "") => pv.district = prm.district
  /\ (prm.ward # Null /\ prm.ward # "") => pv.ward = prm.ward
  /\ (prm.categories # <<>>) =>
       \E i \in 1..Len(pv.categories) : Contains(prm.categories, pv.categories[i])
  /\ ~Falsy(prm.minRating) => pv.rating >= prm.minRating

(* client.search over the points: those passing the filter by descending   *)
(* score, cut to [offset, offset + 3 * limit)                               *)
ClientSearch(prm, points) ==
  LET asc == SetToSeq({p \in DOMAIN points : PointPasses(prm, points[p])})
      sorted == SortByKey([i \in 1..Len(asc) |->
                  [k |-> 0 - Similarity(prm.query, points[asc[i]]), x |-> asc[i]]])
  IN  Slice(sorted, prm.offset, prm.offset + prm.limit * 3)

(* searchResult.map: each result is the point's payload with the score *)
ResultsOf(points, window) ==
  [i \in 1..Len(window) |->
     [documentId |-> points[window[i].x].document_id, score |-> 0 - window[i].k]]

(* QdrantService.searchPlaces, documentId revision *)
QdrantSearchPlacesDoc(cat, prm) ==
  LET points == [p \in Listed(cat) |-> PlaceVectorDoc(Entity(p, DataOf(p)))]
  IN  ResultsOf(points, ClientSearch(prm, points))

(* the value of reading a property an object does not have *)
Undefined == <<"u", "n", "d", "e", "f", "i", "n", "e", "d">>

(* r[name] of a JavaScript object *)
JsField(r, name) == IF name \in DOMAIN r THEN r[name] ELSE Undefined

(* results.find((r) => r.document_id === place.documentId)?.score || 0 *)
JoinedScore(results, documentId) ==
  LET m == {i \in 1..Len(results) : JsField(results[i], "document_id") = documentId}
  IN  IF m = {} THEN 0 ELSE results[CHOOSE i \in m : \A j \in m : i <= j].score

(* places.map: a found Place with its score and its distance to the user *)
PlaceWithScore(p, c, results, prm) ==
  [ id |-> p, rating |-> c.rating, quantity_sold |-> c.quantity_sold,
    searchScore |-> JoinedScore(results, DocId(p)),
    distance |-> calculateDistance(prm.latitude, prm.longitude,
                                   c.address.latitude, c.address.longitude) ]

(* findMany over the candidates' documentIds, published only, in id order *)
FindCandidates(cat, results) ==
  SetToSeq({p \in SearchPlaces :
              /\ StatusPublished(cat, p)
              /\ \E i \in 1..Len(results) : results[i].documentId = DocId(p)})

(* the response: the sorted places cut to [offset, offset + limit) *)
PageOf(prm, results, sortedPlaces, page) ==
  [ data |-> IdsOf(page), scores |-> [i \in 1..Len(page) |-> page[i].searchScore],
    total |-> Len(sortedPlaces), results |-> results, lookedUp |-> TRUE ]

SortedPage(prm, results, sortedPlaces) ==
  PageOf(prm, results, sortedPlaces, Slice(sortedPlaces, prm.offset, prm.offset + prm.limit))

JoinAndSort(prm, results, found) ==
  SortedPage(prm, results,
             SortPlaces(prm.sortBy,
                        [i \in 1..Len(found) |->
                           PlaceWithScore(found[i], Content(DataOf(found[i])), results, prm)]))

ResolveCandidates(cat, prm, results) ==
  IF NoCandidates(results)
  THEN [data |-> <<>>, scores |-> <<>>, total |-> 0, results |-> results, lookedUp |-> FALSE]
  ELSE JoinAndSort(prm, results, FindCandidates(cat, results))

(* search of the place service, vector-first, documentId revision *)
searchVectorFirstDoc(cat, prm) ==
  ResolveCandidates(cat, prm,
    QdrantSearchPlacesDoc(cat, [prm EXCEPT !.limit = (prm.limit + prm.offset) * 2,
                                           !.offset = 0]))

search(strategy, cat, prm) ==
  IF strategy = "keyword" THEN searchKeywordFirst(cat, prm) ELSE searchVectorFirst(cat, prm)

(* Requests.  A request is received, handled by the service or the adapter, *)
(* and answered.                                                            *)

Queries == {"", "hair"}
SortBys == {"relevance", "rating", "distance", "popular"}
UserLocations == {[lat |-> NoNum, lon |-> NoNum], [lat |-> 11, lon |-> 106]}

(* the destructuring defaults of search: absent parameters are undefined *)
Params(q, sortBy, limit, offset, loc, f) ==
  [ query |-> q, sortBy |-> sortBy, limit |-> limit, offset |-> offset,
    latitude |-> loc.lat, longitude |-> loc.lon, radiusKm |-> 10,
    categories |-> f.categories, province |-> f.province, district |-> f.district,
    ward |-> f.ward, minRating |-> f.minRating ]

FilterChoices ==
  { NoFilter,
    [NoFilter EXCEPT !.province = "ho-chi-minh"],
    [NoFilter EXCEPT !.categories = <<"beauty">>],
    [NoFilter EXCEPT !.minRating = 2] }

NoRequest == [kind |-> "none"]
NoResponse == [kind |-> "none"]

IdleSearch ==
  /\ catalog = [p \in SearchPlaces |-> Unlisted]
  /\ request = NoRequest
  /\ response = NoResponse

(* every catalogue of published Places whose documents the bulk            *)
(* synchronisation wrote                                                    *)
InitSearch ==
  /\ catalog \in [SearchPlaces -> {Unlisted, "bulk"}]
  /\ request = NoRequest
  /\ response = NoResponse

ReceiveSearch(strategy, q, sortBy, limit, offset, loc) ==
  /\ request = NoRequest
  /\ response = NoResponse
  /\ request' = [kind |-> strategy, prm |-> Params(q, sortBy, limit, offset, loc, NoFilter)]
  /\ UNCHANGED <<catalog, response>>
  /\ UNCHANGED nonSearchVars

HandleSearch ==
  /\ request.kind \in {"keyword", "vector"}
  /\ response' = [kind |-> request.kind, prm |-> request.prm,
                  result |-> search(request.kind, catalog, request.prm)]
  /\ request' = NoRequest
  /\ UNCHANGED catalog
  /\ UNCHANGED nonSearchVars

SendResponse ==
  /\ response # NoResponse
  /\ response' = NoResponse
  /\ UNCHANGED <<catalog, request>>
  /\ UNCHANGED nonSearchVars

(* the catalogue when some synchronisations were missed: the index may     *)
(* hold documents of Places that are not published any more                 *)
InitStale ==
  /\ catalog \in [SearchPlaces -> {Unlisted, "bulk", Stale}]
  /\ request = NoRequest
  /\ response = NoResponse

NextSearch ==
  \/ \E strategy \in {"keyword", "vector"}, q \in Queries, sortBy \in SortBys,
        limit \in 1..MaxLimit, offset \in 0..MaxOffset, loc \in UserLocations :
       ReceiveSearch(strategy, q, sortBy, limit, offset, loc)
  \/ HandleSearch
  \/ SendResponse

(* a search request to the vector-first service of the documentId revision *)
ReceiveVectorDocSearch(q, sortBy, limit, offset, loc) ==
  /\ request = NoRequest
  /\ response = NoResponse
  /\ request' = [kind |-> "vectorDoc", prm |-> Params(q, sortBy, limit, offset, loc, NoFilter)]
  /\ UNCHANGED <<catalog, response>>
  /\ UNCHANGED nonSearchVars

HandleVectorDocSearch ==
  /\ request.kind = "vectorDoc"
  /\ response' = [kind |-> request.kind, prm |-> request.prm,
                  result |-> searchVectorFirstDoc(catalog, request.prm)]
  /\ request' = NoRequest
  /\ UNCHANGED catalog
  /\ UNCHANGED nonSearchVars

NextVectorDoc ==
  \/ \E q \in Queries, sortBy \in SortBys, limit \in 1..MaxLimit, offset \in 0..MaxOffset,
        loc \in UserLocations :
       ReceiveVectorDocSearch(q, sortBy, limit, offset, loc)
  \/ HandleVectorDocSearch
  \/ SendResponse

(* the catalogue after any mix of bulk and per-place synchronisation *)
InitFacet ==
  /\ catalog \in [SearchPlaces -> CatalogEntries]
  /\ request = NoRequest
  /\ response = NoResponse

MeiliSorts == {"none", "rating", "popular"}

ReceiveMeiliSearch(q, sortBy, limit, offset, f) ==
  /\ request = NoRequest
  /\ response = NoResponse
  /\ request' = [kind |-> "meili",
                 prm |-> Params(q, sortBy, limit, offset, [lat |-> NoNum, lon |-> NoNum], f)]
  /\ UNCHANGED <<catalog, response>>
  /\ UNCHANGED nonSearchVars

HandleMeiliSearch ==
  /\ request.kind = "meili"
  /\ response' = [kind |-> "meili", prm |-> request.prm,
                  result |-> MeiliSearch(IndexDocs(catalog), request.prm)]
  /\ request' = NoRequest
  /\ UNCHANGED catalog
  /\ UNCHANGED nonSearchVars

NextFacet ==
  \/ \E q \in Queries, sortBy \in MeiliSorts, limit \in {1, MaxLimit}, offset \in {0, 1},
        f \in FilterChoices :
       ReceiveMeiliSearch(q, sortBy, limit, offset, f)
  \/ HandleMeiliSearch
  \/ SendResponse

----------------------------------------------------------------------------
(* Filter construction of the two search adapters.  A filter request       *)
(* carries the optional parameters as the adapter receives them; the       *)
(* answer carries the filter the adapter sends to its backend.             *)

Truthy(x) == x # Null /\ x # ""

RECURSIVE JoinWith(_, _)
JoinWith(s, sep) ==
  IF s = <<>> THEN ""
  ELSE IF Len(s) = 1 THEN Head(s)
  ELSE Head(s) \o sep \o JoinWith(Tail(s), sep)

(* `${minRating}` *)
NumToString(n) == IF n = NaN THEN "NaN" ELSE ToString(n)

(* one clause of filter.must per matching field *)
MatchClause(key, value) ==
  IF Truthy(value) THEN << [key |-> key, match |-> [value |-> value]] >> ELSE <<>>

(* QdrantService.searchPlaces: "Build filter conditions" *)
QdrantMust(prm) ==
  (IF ~Falsy(prm.latitude) /\ ~Falsy(prm.longitude)
   THEN << [key |-> "location",
            geo_radius |-> [center |-> [lat |-> prm.latitude, lon |-> prm.longitude],
                            radius |-> prm.radiusKm * 1000]] >>
   ELSE <<>>)
  \o MatchClause("city", prm.city)
  \o MatchClause("province", prm.province)
  \o MatchClause("district", prm.district)
  \o MatchClause("ward", prm.ward)
  \o (IF Len(prm.categories) > 0
      THEN << [key |-> "categories", match |-> [any |-> prm.categories]] >> ELSE <<>>)
  \o (IF ~Falsy(prm.minRating)
      THEN << [key |-> "rating", range |-> [gte |-> prm.minRating]] >> ELSE <<>>)

(* filter: filter.must.length > 0 ? filter : undefined *)
QdrantFilter(prm) ==
  LET must == QdrantMust(prm)
  IN  [undefined |-> Len(must) = 0, must |-> must]

(* one equality clause of MeiliService.search *)
EqClause(field, value) ==
  IF Truthy(value) THEN << [field |-> field, op |-> "=", value |-> JsonStringify(value)] >>
  ELSE <<>>

(* MeiliService.search: the clauses pushed to filters *)
MeiliFilters(prm) ==
  (IF Len(prm.categories) > 0
   THEN << [field |-> "categories", op |-> "IN",
            value |-> "[" \o JoinWith([i \in 1..Len(prm.categories) |->
                                         JsonStringify(prm.categories[i])], ", ") \o "]"] >>
   ELSE <<>>)
  \o EqClause("province", prm.province)
  \o EqClause("district", prm.district)
  \o EqClause("ward", prm.ward)
  \o (IF prm.minRating # NoNum
      THEN << [field |-> "rating", op |-> ">=", value |-> NumToString(prm.minRating)] >>
      ELSE <<>>)

RenderClause(c) == c.field \o " " \o c.op \o " " \o c.value

(* filter: filters.length > 0 ? filters.join(' AND ') : undefined *)
MeiliFilter(prm) ==
  LET filters == MeiliFilters(prm)
  IN  [ undefined |-> Len(filters) = 0, clauses |-> filters,
        expr |-> JoinWith([i \in 1..Len(filters) |-> RenderClause(filters[i])], " AND ") ]

FilterLocations ==
  {[lat |-> NoNum, lon |-> NoNum], [lat |-> 0, lon |-> 106], [lat |-> 11, lon |-> 106]}
FilterCategories == {<<>>, <<"beauty">>, <<"beauty", "hair">>}
FilterRatings == {NoNum, 0, 2}

FilterParams(loc, city, province, district, cats, minRating) ==
  [ latitude |-> loc.lat, longitude |-> loc.lon, radiusKm |-> 10,
    city |-> city, province |-> province, district |-> district,
    ward |-> IF district = Null THEN Null ELSE "ben-nghe",
    categories |-> cats, minRating |-> minRating ]

ReceiveFilterRequest(backend, prm) ==
  /\ request = NoRequest
  /\ response = NoResponse
  /\ request' = [kind |-> backend, prm |-> prm]
  /\ UNCHANGED <<catalog, response>>
  /\ UNCHANGED nonSearchVars

BuildQdrantFilter ==
  /\ request.kind = "qdrantFilter"
  /\ response' = [kind |-> "qdrantFilter", prm |-> request.prm, filter |-> QdrantFilter(request.prm)]
  /\ request' = NoRequest
  /\ UNCHANGED catalog
  /\ UNCHANGED nonSearchVars

BuildMeiliFilter ==
  /\ request.kind = "meiliFilter"
  /\ response' = [kind |-> "meiliFilter", prm |-> request.prm, filter |-> MeiliFilter(request.prm)]
  /\ request' = NoRequest
  /\ UNCHANGED catalog
  /\ UNCHANGED nonSearchVars

NextFilter ==
  \/ \E backend \in {"qdrantFilter", "meiliFilter"}, loc \in FilterLocations,
        city \in {Null, "HCM"}, province \in {Null, "ho-chi-minh"},
        district \in {Null, "quan-1"}, cats \in FilterCategories, minRating \in FilterRatings :
       ReceiveFilterRequest(backend, FilterParams(loc, city, province, district, cats, minRating))
  \/ BuildQdrantFilter
  \/ BuildMeiliFilter
  \/ SendResponse

----------------------------------------------------------------------------
(* Hybrid scoring of the vector adapter.  Texts are sequences of one-      *)
(* character strings; a score is the fraction n / d.                       *)

Rat(n, d) == [n |-> n, d |-> d]
RatLe(a, b) == a.n * b.d <= b.n * a.d
RatEq(a, b) == a.n * b.d = b.n * a.d
RatAdd(a, b) == Rat(a.n * b.d + b.n * a.d, a.d * b.d)
RatMul(a, b) == Rat(a.n * b.n, a.d * b.d)

LowerOf(c) ==
  CASE c = "A" -> "a" [] c = "H" -> "h" [] c = "I" -> "i" [] c = "P" -> "p"
    [] c = "R" -> "r" [] c = "S" -> "s"
    [] OTHER -> c

toLowerCase(s) == [i \in 1..Len(s) |-> LowerOf(s[i])]

RECURSIVE trimStart(_)
trimStart(s) == IF s # <<>> /\ Head(s) = " " THEN trimStart(Tail(s)) ELSE s

RECURSIVE trimEnd(_)
trimEnd(s) == IF s # <<>> /\ s[Len(s)] = " " THEN trimEnd(SubSeq(s, 1, Len(s) - 1)) ELSE s

trim(s) == trimEnd(trimStart(s))

startsWith(t, q) == Len(q) <= Len(t) /\ SubSeq(t, 1, Len(q)) = q

includes(t, q) == \E i \in 0..(Len(t) - Len(q)) : SubSeq(t, i + 1, i + Len(q)) = q

(* s.split(/\s+/): the pieces between runs of blanks; one empty piece for an *)
(* empty text and at each end that carries a blank                           *)
RECURSIVE SplitFrom(_, _, _, _)
SplitFrom(s, cur, acc, inRun) ==
  IF s = <<>> THEN Append(acc, cur)
  ELSE IF Head(s) = " "
       THEN IF inRun THEN SplitFrom(Tail(s), cur, acc, TRUE)
            ELSE SplitFrom(Tail(s), <<>>, Append(acc, cur), TRUE)
       ELSE SplitFrom(Tail(s), Append(cur, Head(s)), acc, FALSE)

split(s) == SplitFrom(s, <<>>, <<>>, FALSE)

(* queryWords.filter(qw => textWords.some(tw => tw.includes(qw) || qw.includes(tw))) *)
matchingWords(queryWords, textWords) ==
  {i \in 1..Len(queryWords) :
     \E j \in 1..Len(textWords) :
       includes(textWords[j], queryWords[i]) \/ includes(queryWords[i], textWords[j])}

(* Mutant: the containment test is made before the prefix test *)
calculateTextSimilarity_ContainsFirst(query, text) ==
  LET queryLower == trim(toLowerCase(query))
      textLower == trim(toLowerCase(text))
      queryWords == split(queryLower)
      matching == matchingWords(queryWords, split(textLower))
  IN  IF textLower = queryLower THEN Rat(10, 10)
      ELSE IF includes(textLower, queryLower) THEN Rat(6, 10)
      ELSE IF startsWith(textLower, queryLower) THEN Rat(8, 10)
      ELSE IF Cardinality(matching) > 0
           THEN RatMul(Rat(4, 10), Rat(Cardinality(matching), Len(queryWords)))
      ELSE Rat(0, 1)

(* calculateTextSimilarity(query, text) *)
calculateTextSimilarity(query, text) ==
  LET queryLower == trim(toLowerCase(query))
      textLower == trim(toLowerCase(text))
      queryWords == split(queryLower)
      matching == matchingWords(queryWords, split(textLower))
  IN  IF textLower = queryLower THEN Rat(10, 10)
      ELSE IF startsWith(textLower, queryLower) THEN Rat(8, 10)
      ELSE IF includes(textLower, queryLower) THEN Rat(6, 10)
      ELSE IF Cardinality(matching) > 0
           THEN RatMul(Rat(4, 10), Rat(Cardinality(matching), Len(queryWords)))
      ELSE Rat(0, 1)

(* the hybrid score of one search result *)
hybridScore(vectorScore, nameMatchScore, addressMatchScore) ==
  RatAdd(RatAdd(RatMul(vectorScore, Rat(4, 10)), RatMul(nameMatchScore, Rat(5, 10))),
         RatMul(addressMatchScore, Rat(1, 10)))

SimQueries ==
  { <<"s", "p", "a">>, <<" ", "S", "p", "a", " ">>, <<"h", "a", "i", "r", " ", "s", "p", "a">>,
    <<"n", "a", "i", "l", " ", " ", "a", "r", "t">>, <<>> }
SimNames ==
  { <<"S", "P", "A">>, <<"s", "p", "a", " ", "h", "i">>, <<"h", "i", " ", "s", "p", "a">>,
    <<"h", "a", "i", "r">>, <<"p", "a">>, <<>> }
SimAddresses == { <<"s", "p", "a">>, <<"a", "r", "t", "s">>, <<>> }
(* result.score || 0, in tenths *)
VectorScores == {Rat(0, 10), Rat(5, 10), Rat(10, 10)}

ReceiveScoreRequest(query, name, address, vectorScore) ==
  /\ request = NoRequest
  /\ response = NoResponse
  /\ request' = [kind |-> "score", query |-> query, name |-> name, address |-> address,
                 vectorScore |-> vectorScore]
  /\ UNCHANGED <<catalog, response>>
  /\ UNCHANGED nonSearchVars

(* searchResult.map: the scores of one result *)
HandleScoreRequest ==
  /\ request.kind = "score"
  /\ LET nameMatchScore == calculateTextSimilarity(request.query, request.name)
         addressMatchScore == calculateTextSimilarity(request.query, request.address)
     IN  response' = [kind |-> "score", query |-> request.query, name |-> request.name,
                      address |-> request.address, vectorScore |-> request.vectorScore,
                      nameMatchScore |-> nameMatchScore,
                      addressMatchScore |-> addressMatchScore,
                      score |-> hybridScore(request.vectorScore, nameMatchScore,
                                            addressMatchScore)]
  /\ request' = NoRequest
  /\ UNCHANGED catalog
  /\ UNCHANGED nonSearchVars

NextScore ==
  \/ \E query \in SimQueries, name \in SimNames, address \in SimAddresses,
        vectorScore \in VectorScores :
       ReceiveScoreRequest(query, name, address, vectorScore)
  \/ HandleScoreRequest
  \/ SendResponse

----------------------------------------------------------------------------
(* The search controller: query-string parsing, the call of the search     *)
(* service, and the translation of a failure into a response status.       *)


(* raw values of a numeric query-string parameter; Null is an absent one *)
RawVals == {Null, "", "0", "10", "2x", "abc"}

(* parseFloat(String(raw)) and parseInt(String(raw)): the leading number,  *)
(* NaN when there is none                                                   *)
parseFloat(raw) ==
  CASE raw = "0" -> 0
    [] raw = "10" -> 10
    [] raw = "2x" -> 2
    [] OTHER -> NaN

(* raw ? parseFloat(String(raw)) : undefined *)
ParseOptional(raw) == IF raw = Null \/ raw = "" THEN NoNum ELSE parseFloat(raw)

(* error.message?.includes('OpenAI API quota exceeded') *)
MessageIncludesQuota(msg) ==
  msg = "OpenAI API quota exceeded. Please upgrade your plan or wait for quota reset."

NumParams == {"lat", "lng", "radius", "minRating", "limit", "offset"}

Faults == {"none", "quota429", "embedError", "backendError", "storeError"}

(* the keyword-first search calls no embedding provider *)
FaultsOfSearch(r) ==
  IF r = "meili" THEN {"none", "backendError", "storeError"} ELSE Faults

(* the message of the error the search service throws.  The documentId     *)
(* revision embeds through EmbeddingService, which renames a 429; the      *)
(* numeric-id revision calls the provider itself and rethrows its error    *)
SearchErrorMessage(r, fault) ==
  CASE fault = "quota429" /\ r = "qdrantDoc" ->
         "OpenAI API quota exceeded. Please upgrade your plan or wait for quota reset."
    [] fault = "quota429" /\ r = "qdrantNum" -> "429 You exceeded your current quota"
    [] fault = "embedError" -> "Connection error."
    [] fault = "backendError" -> "Bad Request"
    [] OTHER -> "Internal error"

(* the parameters handed to the search service *)
ParsedParams(raw) == [k \in NumParams |-> ParseOptional(raw[k])]

(* the catch block of the controller *)
StatusOfFailure(r, msg) ==
  IF r = "qdrantNum" THEN 500
  ELSE IF MessageIncludesQuota(msg) THEN 503
  ELSE 500

(* search of the controller *)
searchController(r, q, raw, fault) ==
  IF r = "qdrantNum" /\ (q = Null \/ q = "")
  THEN [status |-> 400, called |-> FALSE, passed |-> ParsedParams([k \in NumParams |-> Null]),
        unhandled |-> FALSE]
  ELSE [status |-> IF fault = "none" THEN 200 ELSE StatusOfFailure(r, SearchErrorMessage(r, fault)),
        called |-> TRUE, passed |-> ParsedParams(raw), unhandled |-> FALSE]

NoCtl == [kind |-> "none"]

IdleCtl ==
  /\ ctlReq = NoCtl
  /\ ctlRes = NoCtl

(* query strings with at most MaxRawParams numeric parameters present *)
RawQueries ==
  {raw \in [NumParams -> RawVals] : Cardinality({k \in NumParams : raw[k] # Null}) <= MaxRawParams}

ReceiveSearchRequest(r, q, raw, fault) ==
  /\ ctlReq = NoCtl
  /\ ctlRes = NoCtl
  /\ fault \in FaultsOfSearch(r)
  /\ ctlReq' = [kind |-> "search", rev |-> r, q |-> q, raw |-> raw, fault |-> fault]
  /\ UNCHANGED ctlRes
  /\ UNCHANGED nonCtlVars

HandleSearchRequest ==
  /\ ctlReq # NoCtl
  /\ ctlRes' = [kind |-> "search", req |-> ctlReq,
                out |-> searchController(ctlReq.rev, ctlReq.q, ctlReq.raw, ctlReq.fault)]
  /\ ctlReq' = NoCtl
  /\ UNCHANGED nonCtlVars

SendSearchResponse ==
  /\ ctlRes # NoCtl
  /\ ctlRes' = NoCtl
  /\ UNCHANGED ctlReq
  /\ UNCHANGED nonCtlVars

NextCtl ==
  \/ \E r \in Revs, q \in {Null, "hair"}, raw \in RawQueries, fault \in Faults :
       ReceiveSearchRequest(r, q, raw, fault)
  \/ HandleSearchRequest
  \/ SendSearchResponse

(* Recommendations.  The Places listed in the catalogue are the Places     *)
(* with a point in the collection.                                          *)

(* the score client.search gives the point of Place p for the vector of    *)
(* Place x: highest for an equal text, falling with the difference          *)
VectorScore(x, p) == 10 - 3 * Abs(DataOf(x) - DataOf(p))

(* client.search(vector of x, limit): the points by descending score *)
NearestTo(cat, x, limit) ==
  LET asc == SetToSeq(Listed(cat))
      sorted == SortByKey([i \in 1..Len(asc) |-> [k |-> 0 - VectorScore(x, asc[i]), x |-> asc[i]]])
  IN  Slice([i \in 1..Len(sorted) |-> sorted[i].x], 0, limit)

(* Mutant: the reference place is left in the result *)
ExcludeReference_Keep(recs, ids, validUUID) == recs

(* recommendations.filter((rec) => rec.id !== validUUID) *)
ExcludeReference(recs, ids, validUUID) ==
  LET keep == {i \in 1..Len(recs) : ids[recs[i]] # validUUID}
      idx == SetToSeq(keep)
  IN  [i \in 1..Len(idx) |-> recs[idx[i]]]

(* QdrantService.getRecommendations(documentId, limit) *)
getRecommendations(cat, x, limit) ==
  LET ids == [p \in SearchPlaces |-> PointIdOf({}, DocId(p))]
      validUUID == ensureValidUUID(StrVal(DocId(x)))
      place == {p \in Listed(cat) : ids[p] = validUUID}
      recommendations == NearestTo(cat, x, limit + 1)
  IN  IF place = {} THEN [threw |-> TRUE, data |-> <<>>]
      ELSE [threw |-> FALSE,
            data |-> Slice(ExcludeReference(recommendations, ids, validUUID), 0, limit)]

ReceiveRecommend(x, limit) ==
  /\ request = NoRequest
  /\ response = NoResponse
  /\ request' = [kind |-> "recommend", x |-> x, limit |-> limit]
  /\ UNCHANGED <<catalog, response>>
  /\ UNCHANGED nonSearchVars

HandleRecommend ==
  /\ request.kind = "recommend"
  /\ response' = [kind |-> "recommend", x |-> request.x, limit |-> request.limit,
                  result |-> getRecommendations(catalog, request.x, request.limit)]
  /\ request' = NoRequest
  /\ UNCHANGED catalog
  /\ UNCHANGED nonSearchVars

NextRec ==
  \/ \E x \in SearchPlaces, limit \in 0..MaxLimit : ReceiveRecommend(x, limit)
  \/ HandleRecommend
  \/ SendResponse

----------------------------------------------------------------------------
(* QdrantService.initCollection, one client call per step, for callers     *)
(* that may overlap                                                         *)

InitCallers == 1..NumInitCallers

(* the payload indexes, in the order initCollection creates them *)
IndexFields == <<"city", "rating", "categories", "province", "district", "ward">>

AllIndexFields == {IndexFields[i] : i \in 1..Len(IndexFields)}

(* a position of a caller outside the index loop *)
At(st) == [st |-> st, k |-> 0]

IdleColl ==
  /\ collExists = FALSE
  /\ collIndexes = {}
  /\ createCount = 0
  /\ ipc = [c \in InitCallers |-> At("idle")]

(* embeddingService.initialize() and getCollections(): either may throw;   *)
(* otherwise the caller goes on to create the collection or returns         *)
CheckCollection(c, ok) ==
  /\ ipc[c].st \in {"idle", "returned", "threw"}
  /\ ipc' = [ipc EXCEPT ![c] = IF ~ok THEN At("threw")
                               ELSE IF collExists THEN At("returned") ELSE At("create")]
  /\ UNCHANGED <<collExists, collIndexes, createCount>>
  /\ UNCHANGED nonCollVars

(* client.createCollection: the backend refuses a name that exists *)
CreateCollection(c, ok) ==
  /\ ipc[c].st = "create"
  /\ IF ok /\ ~collExists
     THEN /\ collExists' = TRUE
          /\ createCount' = createCount + 1
          /\ ipc' = [ipc EXCEPT ![c] = [st |-> "index", k |-> 1]]
     ELSE /\ ipc' = [ipc EXCEPT ![c] = At("threw")]
          /\ UNCHANGED <<collExists, createCount>>
  /\ UNCHANGED collIndexes
  /\ UNCHANGED nonCollVars

(* the next client.createPayloadIndex of the caller *)
CreatePayloadIndex(c, ok) ==
  /\ ipc[c].st = "index"
  /\ IF ok
     THEN /\ collIndexes' = collIndexes \cup {IndexFields[ipc[c].k]}
          /\ ipc' = [ipc EXCEPT ![c] = IF ipc[c].k = Len(IndexFields) THEN At("returned")
                                         ELSE [st |-> "index", k |-> ipc[c].k + 1]]
     ELSE /\ ipc' = [ipc EXCEPT ![c] = At("threw")]
          /\ UNCHANGED collIndexes
  /\ UNCHANGED <<collExists, createCount>>
  /\ UNCHANGED nonCollVars

NextColl ==
  \/ \E c \in InitCallers, ok \in BOOLEAN : CheckCollection(c, ok)
  \/ \E c \in InitCallers, ok \in BOOLEAN : CreateCollection(c, ok)
  \/ \E c \in InitCallers, ok \in BOOLEAN : CreatePayloadIndex(c, ok)

----------------------------------------------------------------------------
(* Overlapping lifecycle handlers of one Place, keyword revision.  A       *)
(* mutation commits to the content store and starts its handler; the       *)
(* handler then runs one awaited call per step, so that the handlers of    *)
(* two mutations interleave at their awaits.                               *)

Handlers == 1..NumHandlers
(* the Place the overlapping handlers run for *)
RacePlace == CHOOSE p \in HookPlaces : \A q \in HookPlaces : p <= q

HandlerAt(st, data) == [st |-> st, data |-> data]

IdleRace == hpc = [h \in Handlers |-> HandlerAt("idle", 0)]

(* create the Place; afterCreate calls syncToMeili *)
RaceCreate(h, pub, v) ==
  /\ hpc[h].st = "idle"
  /\ store[RacePlace].st = "absent"
  /\ store' = [store EXCEPT ![RacePlace] = [st |-> (IF pub THEN "published" ELSE "draft"), data |-> v]]
  /\ hpc' = [hpc EXCEPT ![h] = HandlerAt("findOne", 0)]
  /\ UNCHANGED <<rev, kwIndex, vecIndex, meiliInit, lastEv, allOk, lastAll>>
  /\ UNCHANGED nonSyncRaceVars

(* save, publish or unpublish the Place; afterUpdate calls syncToMeili *)
RaceUpdate(h, pub, v) ==
  /\ hpc[h].st = "idle"
  /\ store[RacePlace].st \in {"draft", "published"}
  /\ store' = [store EXCEPT ![RacePlace] = [st |-> (IF pub THEN "published" ELSE "draft"), data |-> v]]
  /\ hpc' = [hpc EXCEPT ![h] = HandlerAt("findOne", 0)]
  /\ UNCHANGED <<rev, kwIndex, vecIndex, meiliInit, lastEv, allOk, lastAll>>
  /\ UNCHANGED nonSyncRaceVars

(* delete the Place; afterDelete calls meiliService.deletePlace *)
RaceDelete(h) ==
  /\ hpc[h].st = "idle"
  /\ store[RacePlace].st \in {"draft", "published"}
  /\ store' = [store EXCEPT ![RacePlace] = [st |-> "deleted", data |-> 0]]
  /\ hpc' = [hpc EXCEPT ![h] = HandlerAt("delete", 0)]
  /\ UNCHANGED <<rev, kwIndex, vecIndex, meiliInit, lastEv, allOk, lastAll>>
  /\ UNCHANGED nonSyncRaceVars

(* syncToMeili: await findOne({documentId, status: 'published'}) *)
HandlerFindOne(h) ==
  /\ hpc[h].st = "findOne"
  /\ hpc' = [hpc EXCEPT ![h] = IF IsPublished(store, RacePlace)
                               THEN HandlerAt("upsert", store[RacePlace].data)
                               ELSE HandlerAt("delete", 0)]
  /\ UNCHANGED syncVars
  /\ UNCHANGED nonSyncRaceVars

(* syncToMeili: await initIndex(), then await upsertPlace(doc) with the    *)
(* document projected from the place findOne returned                      *)
HandlerUpsert(h) ==
  /\ hpc[h].st = "upsert"
  /\ \E o \in {MeiliUpsertPlace(MeiliInitIndex(Start(kwIndex, vecIndex, meiliInit), "none"),
                                MeiliDoc(Entity(RacePlace, hpc[h].data)), "none")} :
       /\ kwIndex' = o.kw
       /\ meiliInit' = o.mi
  /\ hpc' = [hpc EXCEPT ![h] = HandlerAt("done", 0)]
  /\ UNCHANGED <<rev, store, vecIndex, lastEv, allOk, lastAll>>
  /\ UNCHANGED nonSyncRaceVars

(* await meiliService.deletePlace(documentId) *)
HandlerDelete(h) ==
  /\ hpc[h].st = "delete"
  /\ \E o \in {MeiliDeletePlace(Start(kwIndex, vecIndex, meiliInit), DocId(RacePlace), "none")} :
       /\ kwIndex' = o.kw
       /\ meiliInit' = o.mi
  /\ hpc' = [hpc EXCEPT ![h] = HandlerAt("done", 0)]
  /\ UNCHANGED <<rev, store, vecIndex, lastEv, allOk, lastAll>>
  /\ UNCHANGED nonSyncRaceVars

NextRace ==
  \/ \E h \in Handlers, pub \in BOOLEAN, v \in DataVals : RaceCreate(h, pub, v)
  \/ \E h \in Handlers, pub \in BOOLEAN, v \in DataVals : RaceUpdate(h, pub, v)
  \/ \E h \in Handlers : RaceDelete(h)
  \/ \E h \in Handlers : HandlerFindOne(h)
  \/ \E h \in Handlers : HandlerUpsert(h)
  \/ \E h \in Handlers : HandlerDelete(h)

----------------------------------------------------------------------------
(* Startup and first use of the vector collection.  The collection may     *)
(* be missing or left by an earlier deployment with another embedding      *)
(* provider; bootVectorSize is its vector size, 0 when it does not exist.  *)

(* EmbeddingService.getVectorDimension *)
getVectorDimension(prov) == IF prov = "local" THEN 384 ELSE 1536

NoOp == [op |-> "none", size |-> 0, fault |-> FALSE, threw |-> FALSE]

IdleBoot ==
  /\ bootVectorSize = 0
  /\ bootPc = "starting"
  /\ bootOps = [c \in InitCallers |-> NoOp]

InitBoot ==
  /\ bootVectorSize \in {0, getVectorDimension("local"), getVectorDimension("openai")}
  /\ bootPc = "starting"
  /\ bootOps = [c \in InitCallers |-> NoOp]

(* bootstrap: await initCollection() inside try/catch; the application     *)
(* starts whether or not it threw.  initCollection creates the collection  *)
(* with the provider's dimension only when no collection has the name.     *)
Bootstrap(ok) ==
  /\ bootPc = "starting"
  /\ bootPc' = IF ok THEN "started" ELSE "startedInitFailed"
  /\ bootVectorSize' = IF ok /\ bootVectorSize = 0 THEN getVectorDimension(provider)
                       ELSE bootVectorSize
  /\ UNCHANGED bootOps
  /\ UNCHANGED nonBootVars

(* the backend's answer to a request that carries a vector: it refuses a   *)
(* collection that does not exist and a vector of another size             *)
BackendRefuses(size, dim) == size = 0 \/ size # dim

(* upsertPlace: generateEmbedding, ensureValidUUID, client.upsert; fault =  *)
(* one of them throws for another reason                                  *)
UpsertPlace(c, fault) ==
  /\ bootPc # "starting"
  /\ bootOps' = [bootOps EXCEPT ![c] =
                   [op |-> "upsert", size |-> bootVectorSize, fault |-> fault,
                    threw |-> (fault \/ BackendRefuses(bootVectorSize,
                                                       getVectorDimension(provider)))]]
  /\ UNCHANGED <<bootVectorSize, bootPc>>
  /\ UNCHANGED nonBootVars

(* searchPlaces: generateEmbedding, client.search *)
SearchPlacesCall(c, fault) ==
  /\ bootPc # "starting"
  /\ bootOps' = [bootOps EXCEPT ![c] =
                   [op |-> "search", size |-> bootVectorSize, fault |-> fault,
                    threw |-> (fault \/ BackendRefuses(bootVectorSize,
                                                       getVectorDimension(provider)))]]
  /\ UNCHANGED <<bootVectorSize, bootPc>>
  /\ UNCHANGED nonBootVars

NextBoot ==
  \/ \E ok \in BOOLEAN : Bootstrap(ok)
  \/ \E c \in InitCallers, fault \in BOOLEAN : UpsertPlace(c, fault)
  \/ \E c \in InitCallers, fault \in BOOLEAN : SearchPlacesCall(c, fault)

----------------------------------------------------------------------------
(* Calls of the identifier mapping *)

(* Identifiers handed to the vector adapter: a well-formed UUID, the same   *)
(* string with one position replaced, cut short or extended, and the        *)
(* documentIds of the places                                                *)
SampleUuid ==
  <<"1","2","3","4","5","6","7","8","-","1","2","3","4","-","4","a","b","c","-",
    "8","d","e","f","-","1","2","3","4","5","6","7","8","9","a","b","c">>

EditPositions == {1, 9, 15, 20, 36}
EditChars == {"g", "-", "6", "A"}

UuidInputs ==
  {[SampleUuid EXCEPT ![i] = c] : i \in EditPositions, c \in EditChars}
    \cup {SampleUuid, SubSeq(SampleUuid, 1, 35), Append(SampleUuid, "0"), <<>>}
    \cup {DocId(p) : p \in 1..NumIds}

IdleUuid == uuidLog = <<>>

(* one call ensureValidUUID(d) with a string argument *)
CallEnsureValidUUID(d) ==
  /\ uuidLog' = (IF Len(uuidLog) = 2 THEN Tail(uuidLog) ELSE uuidLog)
                  \o <<[d |-> d, r |-> ensureValidUUID(StrVal(d))]>>
  /\ UNCHANGED nonUuidVars

NextUuid == \E d \in UuidInputs : CallEnsureValidUUID(d)

----------------------------------------------------------------------------
(* EmbeddingService: lazy initialisation shared by concurrent callers.     *)
(* A caller runs generateEmbedding: the synchronous part of initialize(),  *)
(* the await of the returned promise, then the provider's embedding call.  *)

Callers == 1..NumCallers

IdleEmb ==
  /\ provider = "local"
  /\ initPromise = 0
  /\ promiseState = <<>>
  /\ localModel = FALSE
  /\ loadsStarted = 0
  /\ epc = [c \in Callers |-> "idle"]
  /\ awaiting = [c \in Callers |-> 0]
  /\ lateJoin = [c \in Callers |-> "no"]

InitEmb ==
  /\ provider \in {"local", "openai"}
  /\ initPromise = 0
  /\ promiseState = <<>>
  /\ localModel = FALSE
  /\ loadsStarted = 0
  /\ epc = [c \in Callers |-> "idle"]
  /\ awaiting = [c \in Callers |-> 0]
  /\ lateJoin = [c \in Callers |-> "no"]

(* Mutant: the guard looks at the loaded model instead of the promise *)
InitGuard_ModelOnly(ip, lm) == lm

(* if (this.initPromise) return this.initPromise *)
InitGuard(ip, lm) == ip # 0

(* if (this.provider === 'local' && !this.localModel), inside the promise *)
NeedsLoad(prov, lm) == prov = "local" /\ ~lm

FailedBefore == \E k \in 1..Len(promiseState) : promiseState[k] = "rejected"

(* generateEmbedding(text) up to its await: initialize() runs synchronously *)
(* until pipeline(...) has been called and initPromise assigned             *)
CallGenerateEmbedding(c) ==
  /\ epc[c] = "idle"
  /\ epc' = [epc EXCEPT ![c] = "awaitInit"]
  /\ IF InitGuard(initPromise, localModel)
     THEN /\ awaiting' = [awaiting EXCEPT ![c] = initPromise]
          /\ lateJoin' = [lateJoin EXCEPT ![c] = IF FailedBefore THEN "joinedRejected" ELSE "no"]
          /\ UNCHANGED <<initPromise, promiseState, loadsStarted>>
     ELSE /\ initPromise' = Len(promiseState) + 1
          /\ awaiting' = [awaiting EXCEPT ![c] = Len(promiseState) + 1]
          /\ IF NeedsLoad(provider, localModel)
             THEN /\ promiseState' = Append(promiseState, "pending")
                  /\ loadsStarted' = loadsStarted + 1
             ELSE /\ promiseState' = Append(promiseState, "fulfilled")
                  /\ UNCHANGED loadsStarted
          /\ lateJoin' = [lateJoin EXCEPT ![c] = IF FailedBefore THEN "startedNew" ELSE "no"]
  /\ UNCHANGED <<provider, localModel>>
  /\ UNCHANGED nonEmbVars

(* the pipeline(...) call of promise k settles: the model is loaded, or the *)
(* load throws and the promise rejects                                      *)
LoadSettles(k, ok) ==
  /\ k \in 1..Len(promiseState)
  /\ promiseState[k] = "pending"
  /\ promiseState' = [promiseState EXCEPT ![k] = IF ok THEN "fulfilled" ELSE "rejected"]
  /\ localModel' = (localModel \/ ok)
  /\ UNCHANGED <<provider, initPromise, loadsStarted, epc, awaiting, lateJoin>>
  /\ UNCHANGED nonEmbVars

(* await this.initialize() returns or throws; on return the caller enters   *)
(* generateLocalEmbedding / generateOpenAIEmbedding                         *)
ResumeAfterInit(c) ==
  /\ epc[c] = "awaitInit"
  /\ awaiting[c] \in 1..Len(promiseState)
  /\ promiseState[awaiting[c]] # "pending"
  /\ epc' = [epc EXCEPT ![c] = IF promiseState[awaiting[c]] = "fulfilled" THEN "embedding" ELSE "failed"]
  /\ UNCHANGED <<provider, initPromise, promiseState, localModel, loadsStarted, awaiting, lateJoin>>
  /\ UNCHANGED nonEmbVars

(* the provider call: the local model is invoked (it throws 'Local model not *)
(* initialized' when there is none), or the remote API answers or fails      *)
EmbeddingReturns(c, ok) ==
  /\ epc[c] = "embedding"
  /\ epc' = [epc EXCEPT ![c] = IF ok /\ (provider = "openai" \/ localModel) THEN "done" ELSE "failed"]
  /\ UNCHANGED <<provider, initPromise, promiseState, localModel, loadsStarted, awaiting, lateJoin>>
  /\ UNCHANGED nonEmbVars

NextEmb ==
  \/ \E c \in Callers : CallGenerateEmbedding(c)
  \/ \E k \in 1..NumCallers, ok \in BOOLEAN : LoadSettles(k, ok)
  \/ \E c \in Callers : ResumeAfterInit(c)
  \/ \E c \in Callers, ok \in BOOLEAN : EmbeddingReturns(c, ok)

----------------------------------------------------------------------------
(* The synchronisation state machine: content mutations, each followed by  *)
(* its lifecycle hook run to completion.                                   *)

NoEvent ==
  [ kind |-> "none", p |-> 0, pub |-> FALSE, threw |-> FALSE, caught |-> FALSE,
    same |-> FALSE,
    kwUp |-> "none", kwDel |-> "none", vecUp |-> "none", vecDel |-> "none" ]

EventOf(kind, p, pub, same, o) ==
  [ kind |-> kind, p |-> p, pub |-> pub, threw |-> o.threw, caught |-> o.caught,
    same |-> same,
    kwUp |-> o.kwUp, kwDel |-> o.kwDel, vecUp |-> o.vecUp, vecDel |-> o.vecDel ]

NoAll ==
  [ called |-> FALSE, fm |-> FALSE, synced |-> 0, failed |-> 0, total |-> 0,
    attempted |-> {}, threwSet |-> {}, published |-> {}, raised |-> FALSE ]

Absent == [st |-> "absent", data |-> 0]
Deleted == [st |-> "deleted", data |-> 0]

InitSync ==
  /\ rev \in Revs
  /\ store = [p \in Places |-> Absent]
  /\ kwIndex = {}
  /\ vecIndex = {}
  /\ meiliInit = FALSE
  /\ lastEv = NoEvent
  /\ allOk = TRUE
  /\ lastAll = NoAll

Apply(o) ==
  /\ kwIndex' = o.kw
  /\ vecIndex' = o.vec
  /\ meiliInit' = o.mi
  /\ allOk' = (allOk /\ ~o.caught /\ ~o.threw)

StatusOf(pub) == IF pub THEN "published" ELSE "draft"

(* the calls a handler of revision r makes, any of which may fail *)
FailPointsOf(r) ==
  IF r = "meili" THEN {"none", "findOne", "initIndex", "write"}
  ELSE {"none", "findOne", "embed", "write"}

(* create a Place (as a draft or published), then afterCreate *)
CreatePlace(p, pub, v, f) ==
  /\ store[p].st = "absent"
  /\ f \in FailPointsOf(rev)
  /\ \E st1 \in {[store EXCEPT ![p] = [st |-> StatusOf(pub), data |-> v]]} :
       \E o \in {afterCreate(rev, Start(kwIndex, vecIndex, meiliInit), st1, p, pub, f)} :
         /\ store' = st1
         /\ Apply(o)
         /\ lastEv' = EventOf("create", p, pub, FALSE, o)
  /\ UNCHANGED <<rev, lastAll>>
  /\ UNCHANGED nonSyncVars

(* save, publish or unpublish an existing Place, then afterUpdate *)
UpdatePlace(p, pub, v, f) ==
  /\ Exists(store, p)
  /\ f \in FailPointsOf(rev)
  /\ \E st1 \in {[store EXCEPT ![p] = [st |-> StatusOf(pub), data |-> v]]} :
       \E o \in {afterUpdate(rev, Start(kwIndex, vecIndex, meiliInit), st1, p, pub, f)} :
         /\ store' = st1
         /\ Apply(o)
         /\ lastEv' = EventOf("update", p, pub, st1[p] = store[p], o)
  /\ UNCHANGED <<rev, lastAll>>
  /\ UNCHANGED nonSyncVars

(* delete a Place, then afterDelete *)
DeletePlace(p, f) ==
  /\ Exists(store, p)
  /\ f \in FailPointsOf(rev)
  /\ \E st1 \in {[store EXCEPT ![p] = Deleted]} :
       \E o \in {afterDelete(rev, Start(kwIndex, vecIndex, meiliInit), st1, p, f)} :
         /\ store' = st1
         /\ Apply(o)
         /\ lastEv' = EventOf("delete", p, FALSE, FALSE, o)
  /\ UNCHANGED <<rev, lastAll>>
  /\ UNCHANGED nonSyncVars

NextSync ==
  \/ \E p \in HookPlaces, pub \in BOOLEAN, v \in DataVals, f \in FailPoints : CreatePlace(p, pub, v, f)
  \/ \E p \in HookPlaces, pub \in BOOLEAN, v \in DataVals, f \in FailPoints : UpdatePlace(p, pub, v, f)
  \/ \E p \in HookPlaces, f \in FailPoints : DeletePlace(p, f)

(* the sync path before any lifecycle event, under the first revision *)
IdleSync ==
  /\ rev = "meili"
  /\ store = [p \in Places |-> Absent]
  /\ kwIndex = {}
  /\ vecIndex = {}
  /\ meiliInit = FALSE
  /\ lastEv = NoEvent
  /\ allOk = TRUE
  /\ lastAll = NoAll

InitSyncOnly == InitSync /\ IdleEmb /\ IdleUuid /\ IdleSearch /\ IdleCtl /\ IdleColl /\ IdleRace /\ IdleBoot

SpecSync == InitSyncOnly /\ [][NextSync]_vars

----------------------------------------------------------------------------
(* The full re-sync endpoint, called on any content-store state (the       *)
(* indexes are empty when every earlier hook has failed).                  *)

StoreStates ==
  {Absent} \cup {[st |-> s, data |-> 1] : s \in {"draft", "published"}}

InitSyncAll ==
  /\ rev \in Revs
  /\ store \in [Places -> StoreStates]
  /\ kwIndex = {}
  /\ vecIndex = {}
  /\ meiliInit = FALSE
  /\ lastEv = NoEvent
  /\ allOk = TRUE
  /\ lastAll = NoAll

(* POST /places/sync-all *)
SyncAll(fm, fs) ==
  /\ \E r \in {syncAll(rev, Start(kwIndex, vecIndex, meiliInit), store, fm, fs)} :
        /\ kwIndex' = r.o.kw
        /\ vecIndex' = r.o.vec
        /\ meiliInit' = r.o.mi
        /\ allOk' = (allOk /\ ~fm /\ r.threwSet = {})
        /\ lastAll' = [ called |-> TRUE, fm |-> fm, synced |-> r.synced, failed |-> r.failed,
                        total |-> r.total, attempted |-> r.attempted, threwSet |-> r.threwSet,
                        published |-> {p \in Places : IsPublished(store, p)},
                        raised |-> r.raised ]
  /\ UNCHANGED <<rev, store, lastEv>>
  /\ UNCHANGED nonSyncVars

NextSyncAll ==
  \E fm \in BOOLEAN, fs \in [Places -> {"none", "findOne", "embed", "write"}] : SyncAll(fm, fs)

InitSyncAllOnly == InitSyncAll /\ IdleEmb /\ IdleUuid /\ IdleSearch /\ IdleCtl /\ IdleColl /\ IdleRace /\ IdleBoot

SpecSyncAll == InitSyncAllOnly /\ [][NextSyncAll]_vars

----------------------------------------------------------------------------
(* Manual full re-synchronisation after any history of lifecycle events.   *)

(* syncMeili(ctx): fm = the findMany call fails; one chunk of at most 1000 *)
(* documents                                                               *)
syncMeili(o, st, fm, f) ==
  IF fm THEN Throw(o)
  ELSE LET places == FindManyPublished(st)
           o1 == MeiliInitIndex(o, f)
           docs == [i \in 1..Len(places) |-> MeiliBulkDoc(Entity(places[i], st[places[i]].data))]
       IN  IF o1.threw THEN o1 ELSE MeiliUpsertPlaces(o1, docs, f)

(* POST /places/sync-all, the same failure point for every place *)
ResyncAll(fm, f) ==
  /\ f \in FailPointsOf(rev)
  /\ \E r \in {syncAll(rev, Start(kwIndex, vecIndex, meiliInit), store, fm,
                       [p \in Places |-> f])} :
        /\ kwIndex' = r.o.kw
        /\ vecIndex' = r.o.vec
        /\ meiliInit' = r.o.mi
        /\ allOk' = (allOk /\ ~fm /\ r.threwSet = {})
        /\ lastEv' = [NoEvent EXCEPT !.kind = "syncAll", !.threw = (fm \/ r.threwSet # {})]
  /\ UNCHANGED <<rev, store, lastAll>>
  /\ UNCHANGED nonSyncVars

(* POST /places/sync-meili *)
ResyncMeili(fm, f) ==
  /\ rev = "meili"
  /\ f \in {"none", "initIndex", "write"}
  /\ \E o \in {syncMeili(Start(kwIndex, vecIndex, meiliInit), store, fm, f)} :
        /\ kwIndex' = o.kw
        /\ vecIndex' = o.vec
        /\ meiliInit' = o.mi
        /\ allOk' = (allOk /\ ~o.threw)
        /\ lastEv' = [NoEvent EXCEPT !.kind = "syncMeili", !.threw = o.threw]
  /\ UNCHANGED <<rev, store, lastAll>>
  /\ UNCHANGED nonSyncVars

NextResync ==
  \/ \E p \in HookPlaces, pub \in BOOLEAN, v \in DataVals, f \in FailPoints : CreatePlace(p, pub, v, f)
  \/ \E p \in HookPlaces, pub \in BOOLEAN, v \in DataVals, f \in FailPoints : UpdatePlace(p, pub, v, f)
  \/ \E p \in HookPlaces, f \in FailPoints : DeletePlace(p, f)
  \/ \E fm \in BOOLEAN, f \in FailPoints : ResyncAll(fm, f)
  \/ \E fm \in BOOLEAN, f \in FailPoints : ResyncMeili(fm, f)

SpecResync == InitSyncOnly /\ [][NextResync]_vars

----------------------------------------------------------------------------
(* Direct calls of the adapter operations with a fault injected into one   *)
(* of the calls the operation makes.  lastEv records the call: whether an  *)
(* error was raised inside the adapter and whether the caller saw one.     *)

AdapterEvent(op, p, f, raised, o) ==
  [kind |-> op, p |-> p, fault |-> f, raised |-> raised, threw |-> o.threw]

(* initIndex throws inside ensureInit: only when ensureInit calls it *)
InitRaised(f) == f = "initIndex" /\ ~meiliInit

AdapterApply(o) ==
  /\ kwIndex' = o.kw
  /\ vecIndex' = o.vec
  /\ meiliInit' = o.mi
  /\ UNCHANGED <<rev, store, allOk, lastAll>>
  /\ UNCHANGED nonSyncVars

(* meiliService.upsertPlace(doc) *)
CallMeiliUpsert(p, v, f) ==
  /\ rev = "meili"
  /\ \E o \in {MeiliUpsertPlace(Start(kwIndex, vecIndex, meiliInit), MeiliDoc(Entity(p, v)), f)} :
       /\ AdapterApply(o)
       /\ lastEv' = AdapterEvent("meiliUpsert", p, f, f = "write" \/ InitRaised(f), o)

(* meiliService.deletePlace(documentId) *)
CallMeiliDelete(p, f) ==
  /\ rev = "meili"
  /\ \E o \in {MeiliDeletePlace(Start(kwIndex, vecIndex, meiliInit), DocId(p), f)} :
       /\ AdapterApply(o)
       /\ lastEv' = AdapterEvent("meiliDelete", p, f, f = "write" \/ InitRaised(f), o)

(* qdrantService.upsertPlace(place) *)
CallQdrantUpsert(p, v, f) ==
  /\ rev = "qdrantDoc"
  /\ \E o \in {QdrantUpsertPlaceDoc(Start(kwIndex, vecIndex, meiliInit),
                                    PlaceVectorDoc(Entity(p, v)), f)} :
       /\ AdapterApply(o)
       /\ lastEv' = AdapterEvent("qdrantUpsert", p, f, f \in {"embed", "write"}, o)

(* qdrantService.deletePlace(documentId) *)
CallQdrantDelete(p, f) ==
  /\ rev = "qdrantDoc"
  /\ \E o \in {QdrantDeletePlaceDoc(Start(kwIndex, vecIndex, meiliInit), StrVal(DocId(p)), f)} :
       /\ AdapterApply(o)
       /\ lastEv' = AdapterEvent("qdrantDelete", p, f, f = "write", o)

NextAdapter ==
  \/ \E p \in Places, v \in DataVals, f \in {"none", "initIndex", "write"} : CallMeiliUpsert(p, v, f)
  \/ \E p \in Places, f \in {"none", "initIndex", "write"} : CallMeiliDelete(p, f)
  \/ \E p \in Places, v \in DataVals, f \in {"none", "embed", "write"} : CallQdrantUpsert(p, v, f)
  \/ \E p \in Places, f \in {"none", "write"} : CallQdrantDelete(p, f)

SpecAdapter == InitSyncOnly /\ [][NextAdapter]_vars

----------------------------------------------------------------------------
(* Properties of the synchronisation *)

HasDoc(p) == \E d \in kwIndex : d.documentId = DocId(p)

HasPoint(p) ==
  \E q \in vecIndex :
    IF rev = "qdrantNum" THEN q.id = NumId(p) ELSE q.payload.documentId = DocId(p)

Live(p) == store[p].st = "published"

(* the index the deployed revision maintains holds an entry for p *)
Indexed(p) == IF rev = "meili" THEN HasDoc(p) ELSE HasPoint(p)

SyncEvent(e) == e.kind \in {"create", "update"} /\ e.pub

C3_HooksNeverPropagate ==
  lastEv.kind # "none" => ~lastEv.threw

(* the operation of a hook threw and the hook returned normally *)
C3_Witness ==
  /\ lastEv.kind = "delete"
  /\ lastEv.caught
  /\ ~lastEv.threw

(* C10: syncing a published Place again with unchanged data leaves each     *)
(* index as the first sync left it.                                         *)
C10_SyncIdempotent ==
  [][ ( /\ SyncEvent(lastEv) /\ ~lastEv.caught
        /\ lastEv'.kind = "update" /\ lastEv'.pub /\ ~lastEv'.caught
        /\ lastEv'.p = lastEv.p
        /\ lastEv'.same )
      => (kwIndex' = kwIndex /\ vecIndex' = vecIndex) ]_vars

(* a published Place has been synced a second time with unchanged data *)
C10_Witness ==
  /\ allOk
  /\ lastEv.kind = "update" /\ lastEv.pub /\ lastEv.same /\ ~lastEv.caught
  /\ lastEv.vecUp = "applied"
  /\ Cardinality(vecIndex) = 1

(* C4: syncAll attempts every published Place, counts the syncs that did    *)
(* not throw as synced and those that threw as failed, synced + failed =    *)
(* total, and the call does not raise.                                      *)
C4_SyncAllCounts ==
  (lastAll.called /\ ~lastAll.fm) =>
    /\ lastAll.attempted = lastAll.published
    /\ lastAll.total = Cardinality(lastAll.published)
    /\ lastAll.synced = Cardinality(lastAll.published \ lastAll.threwSet)
    /\ lastAll.failed = Cardinality(lastAll.threwSet)
    /\ lastAll.synced + lastAll.failed = lastAll.total
    /\ ~lastAll.raised

(* a sync threw and a later Place of the batch was still synced *)
C4_Witness ==
  /\ lastAll.called /\ ~lastAll.fm
  /\ \E p, q \in lastAll.attempted :
       p < q /\ p \in lastAll.threwSet /\ q \notin lastAll.threwSet

----------------------------------------------------------------------------
(* Properties of the embedding service *)

InitEmbOnly == InitEmb /\ IdleSync /\ IdleUuid /\ IdleSearch /\ IdleCtl /\ IdleColl /\ IdleRace /\ IdleBoot

SpecEmb == InitEmbOnly /\ [][NextEmb]_vars

(* C5: for any number of concurrent first callers the model load is started *)
(* at most once, all callers await the same promise, and no caller reaches  *)
(* the local model before the load has completed.                           *)
C5_SingleLoad ==
  /\ loadsStarted <= 1
  /\ \A c, d \in Callers :
       (epc[c] # "idle" /\ epc[d] # "idle") => awaiting[c] = awaiting[d]
  /\ \A c \in Callers :
       (epc[c] = "embedding" /\ provider = "local") => localModel

(* every caller joined while the one load was in flight, and it completed *)
C5_Witness ==
  /\ provider = "local"
  /\ loadsStarted = 1
  /\ localModel
  /\ \A c \in Callers : epc[c] = "embedding"

(* C6 as stated: a call to initialize made after a failed load starts a new *)
(* load attempt instead of being handed the cached failure.                 *)
C6_RetryAfterFailure ==
  \A c \in Callers : lateJoin[c] # "joinedRejected"

----------------------------------------------------------------------------
(* Properties of the identifier mapping *)

InitUuidOnly == IdleUuid /\ IdleSync /\ IdleEmb /\ IdleSearch /\ IdleCtl /\ IdleColl /\ IdleRace /\ IdleBoot

SpecUuid == InitUuidOnly /\ [][NextUuid]_vars

----------------------------------------------------------------------------
(* Properties of search *)

InitSearchOnly == InitSearch /\ IdleSync /\ IdleEmb /\ IdleUuid /\ IdleCtl /\ IdleColl /\ IdleRace /\ IdleBoot

SpecSearch == InitSearchOnly /\ [][NextSearch]_vars

(* the items at ranks [offset, offset + limit) of the fully sorted result: *)
(* the same search with offset 0 and a limit that holds every Place         *)
RanksOfFull(strategy, cat, prm) ==
  Slice(search(strategy, cat, [prm EXCEPT !.offset = 0, !.limit = NumSearchPlaces]).data,
        prm.offset, prm.offset + prm.limit)

(* C8 as stated: the data of search(limit = L, offset = O) are the items at *)
(* ranks [O, O + L) of the fully sorted result.                             *)
C8_PaginationConsistent ==
  response # NoResponse =>
    response.result.data = RanksOfFull(response.kind, catalog, response.prm)

InitFacetOnly == InitFacet /\ IdleSync /\ IdleEmb /\ IdleUuid /\ IdleCtl /\ IdleColl /\ IdleRace /\ IdleBoot

SpecFacet == InitFacetOnly /\ [][NextFacet]_vars

(* the call with the same query and no filter, no sort, the first page *)
UnfilteredCall(prm) == Params(prm.query, "none", 1, 0, [lat |-> NoNum, lon |-> NoNum], NoFilter)

(* C9: the facet distribution of MeiliService.search depends on the query  *)
(* and the index content only: every call returns the distribution of the  *)
(* call with the same query and no filter, sort, limit or offset, so two    *)
(* calls that differ only in those return the same distribution.            *)
C9_FacetsIgnoreFilters ==
  response.kind = "meili" =>
    response.result.facetDistribution =
      MeiliSearch(IndexDocs(catalog), UnfilteredCall(response.prm)).facetDistribution

(* a filtered call whose facets count more documents than pass its filter *)
C9_Witness ==
  /\ response.kind = "meili"
  /\ response.prm.minRating = 2
  /\ response.prm.offset = 1
  /\ \E c \in response.result.facetDistribution["cityFacet"] : c[2] > response.result.totalHits

----------------------------------------------------------------------------
(* Properties of the search controller *)

InitCtlOnly == IdleCtl /\ IdleSync /\ IdleEmb /\ IdleUuid /\ IdleSearch /\ IdleColl /\ IdleRace /\ IdleBoot

SpecCtl == InitCtlOnly /\ [][NextCtl]_vars

(* C11 as stated: a 429 of the embedding provider during a search is       *)
(* answered with 503, every other search failure with 500, and the handler *)
(* leaves no unhandled exception.                                           *)
C11_QuotaIs503 ==
  (ctlRes # NoCtl /\ ctlRes.out.called) =>
    /\ ctlRes.req.fault = "quota429" => ctlRes.out.status = 503
    /\ ctlRes.req.fault \in Faults \ {"none", "quota429"} => ctlRes.out.status = 500
    /\ ~ctlRes.out.unhandled

(* C18 as stated: a numeric parameter that fails to parse is treated as    *)
(* unset, so no not-a-number value is passed to the search service.         *)
C18_NoNaNPassed ==
  (ctlRes # NoCtl /\ ctlRes.out.called) =>
    \A k \in NumParams : ctlRes.out.passed[k] # NaN

----------------------------------------------------------------------------
(* Properties of the ordering of search results *)

(* the distance from the user of the request to Place p *)
DistanceTo(prm, p) ==
  calculateDistance(prm.latitude, prm.longitude,
                    Content(DataOf(p)).address.latitude, Content(DataOf(p)).address.longitude)

(* C12 as stated: with sortBy = distance and a user coordinate the results *)
(* are in non-decreasing distance from the user, and every result without  *)
(* a distance comes after every result that has one.                       *)
C12_DistanceOrder ==
  (/\ response.kind = "keyword"
   /\ response.prm.sortBy = "distance"
   /\ response.prm.latitude # NoNum
   /\ response.prm.longitude # NoNum) =>
    \A i, j \in 1..Len(response.result.data) :
      i < j =>
        LET di == DistanceTo(response.prm, response.result.data[i])
            dj == DistanceTo(response.prm, response.result.data[j])
        IN  /\ (di # NoNum /\ dj # NoNum) => di <= dj
            /\ ~(di = NoNum /\ dj # NoNum)

(* C13: when the index backend returns no candidate, search returns an    *)
(* empty data list with total 0 and makes no content-store lookup.         *)
C13_EmptyShortCircuit ==
  (response.kind \in {"keyword", "vector"} /\ response.result.candidates = 0) =>
    /\ response.result.data = <<>>
    /\ response.result.total = 0
    /\ ~response.result.lookedUp

(* a query that matches none of the listed Places, in either strategy *)
C13_Witness ==
  /\ response.kind \in {"keyword", "vector"}
  /\ response.result.candidates = 0
  /\ Listed(catalog) # {}
  /\ response.prm.offset = 0

----------------------------------------------------------------------------
(* Further properties of the lifecycle hooks *)

(* C14 as stated: a created event for a Place that is not published issues *)
(* neither an upsert nor a delete to the keyword or the vector index.      *)
C14_DraftCreateNoOp ==
  (lastEv.kind = "create" /\ ~lastEv.pub) =>
    /\ lastEv.kwUp = "none" /\ lastEv.kwDel = "none"
    /\ lastEv.vecUp = "none" /\ lastEv.vecDel = "none"

----------------------------------------------------------------------------
(* Properties of the recommendations *)

InitRecOnly == InitSearch /\ IdleSync /\ IdleEmb /\ IdleUuid /\ IdleCtl /\ IdleColl /\ IdleRace /\ IdleBoot

SpecRec == InitRecOnly /\ [][NextRec]_vars

(* the points other than x, nearest to x first *)
NeighboursOf(cat, x) ==
  LET all == NearestTo(cat, x, NumSearchPlaces)
      idx == SetToSeq({i \in 1..Len(all) : all[i] # x})
  IN  [i \in 1..Len(idx) |-> all[idx[i]]]

(* C15: getRecommendations(X, limit) fails when X has no stored point;     *)
(* otherwise it returns at most limit items, never X, namely the nearest   *)
(* neighbours of X's vector in the backend's order with X removed.         *)
C15_Recommendations ==
  response.kind = "recommend" =>
    IF catalog[response.x] = Unlisted THEN response.result.threw
    ELSE /\ ~response.result.threw
         /\ \A i \in 1..Len(response.result.data) : response.result.data[i] # response.x
         /\ Len(response.result.data) <= response.limit
         /\ response.result.data = Slice(NeighboursOf(catalog, response.x), 0, response.limit)

(* a full page of neighbours of a Place that is not first in the backend's *)
(* order                                                                    *)
C15_Witness ==
  /\ response.kind = "recommend"
  /\ ~response.result.threw
  /\ response.limit = MaxLimit
  /\ Len(response.result.data) = MaxLimit
  /\ NearestTo(catalog, response.x, 1) # <<response.x>>

----------------------------------------------------------------------------
(* Properties of the collection initialisation *)

InitCollOnly == IdleColl /\ IdleSync /\ IdleEmb /\ IdleUuid /\ IdleSearch /\ IdleCtl /\ IdleRace /\ IdleBoot

SpecColl == InitCollOnly /\ [][NextColl]_vars

(* C16 as stated: the collection is created at most once, and after every  *)
(* call that returns successfully it exists with a payload index on each   *)
(* of city, province, district, ward, categories and rating.                *)
C16_InitCollectionComplete ==
  /\ createCount <= 1
  /\ \A c \in InitCallers :
       ipc[c].st = "returned" => (collExists /\ collIndexes = AllIndexFields)

----------------------------------------------------------------------------
(* Properties of the projected keyword document *)

NoTwoEqual(s) == \A i, j \in 1..Len(s) : s[i] = s[j] => i = j
TrimmedNonEmpty(s) == \A i \in 1..Len(s) : s[i] # "" /\ Trim(s[i]) = s[i]
SlugsKept(d, c) ==
  /\ Len(d.categories) = Len(c.category_places)
  /\ \A i \in 1..Len(c.category_places) :
       (c.category_places[i].slug # Null /\ c.category_places[i].slug # "")
         => d.categories[i] = c.category_places[i].slug

(* C17 as stated: in every document of the keyword index, serviceNames and *)
(* serviceGroupNames hold no two equal entries and no untrimmed or empty   *)
(* entry, and categories holds the slug of each category that has one.     *)
C17_ProjectionDeduplicated ==
  \A d \in kwIndex :
    /\ NoTwoEqual(d.serviceNames) /\ TrimmedNonEmpty(d.serviceNames)
    /\ NoTwoEqual(d.serviceGroupNames) /\ TrimmedNonEmpty(d.serviceGroupNames)
    /\ \E p \in Places, v \in DataVals :
         d = MeiliDoc(Entity(p, v)) /\ SlugsKept(d, Content(v))

----------------------------------------------------------------------------
(* Properties of the filter construction *)

InitFilterOnly == IdleSearch /\ IdleSync /\ IdleEmb /\ IdleUuid /\ IdleCtl /\ IdleColl /\ IdleRace /\ IdleBoot
SpecFilter == InitFilterOnly /\ [][NextFilter]_vars

(* the clauses of a vector filter on one key *)
MustOn(must, key) == {i \in 1..Len(must) : must[i].key = key}
(* the clauses of a keyword filter on one field *)
ClausesOn(clauses, field) == {i \in 1..Len(clauses) : clauses[i].field = field}

OneMatch(must, key, value) ==
  IF value = Null THEN MustOn(must, key) = {}
  ELSE /\ Cardinality(MustOn(must, key)) = 1
       /\ \A i \in MustOn(must, key) : must[i].match = [value |-> value]

OneEquality(clauses, field, value) ==
  IF value = Null THEN ClausesOn(clauses, field) = {}
  ELSE /\ Cardinality(ClausesOn(clauses, field)) = 1
       /\ \A i \in ClausesOn(clauses, field) :
            clauses[i].op = "=" /\ clauses[i].value = JsonStringify(value)

QdrantFilterExact(prm, must) ==
  /\ IF prm.latitude # NoNum /\ prm.longitude # NoNum
     THEN /\ Cardinality(MustOn(must, "location")) = 1
          /\ \A i \in MustOn(must, "location") :
               /\ must[i].geo_radius.center = [lat |-> prm.latitude, lon |-> prm.longitude]
               /\ must[i].geo_radius.radius = prm.radiusKm * 1000
     ELSE MustOn(must, "location") = {}
  /\ OneMatch(must, "city", prm.city)
  /\ OneMatch(must, "province", prm.province)
  /\ OneMatch(must, "district", prm.district)
  /\ OneMatch(must, "ward", prm.ward)
  /\ IF prm.categories # <<>>
     THEN /\ Cardinality(MustOn(must, "categories")) = 1
          /\ \A i \in MustOn(must, "categories") : must[i].match = [any |-> prm.categories]
     ELSE MustOn(must, "categories") = {}
  /\ IF prm.minRating # NoNum
     THEN /\ Cardinality(MustOn(must, "rating")) = 1
          /\ \A i \in MustOn(must, "rating") : must[i].range = [gte |-> prm.minRating]
     ELSE MustOn(must, "rating") = {}

MeiliFilterExact(prm, f) ==
  /\ OneEquality(f.clauses, "province", prm.province)
  /\ OneEquality(f.clauses, "district", prm.district)
  /\ OneEquality(f.clauses, "ward", prm.ward)
  /\ IF prm.categories # <<>>
     THEN /\ Cardinality(ClausesOn(f.clauses, "categories")) = 1
          /\ \A i \in ClausesOn(f.clauses, "categories") : f.clauses[i].op = "IN"
     ELSE ClausesOn(f.clauses, "categories") = {}
  /\ IF prm.minRating # NoNum
     THEN /\ Cardinality(ClausesOn(f.clauses, "rating")) = 1
          /\ \A i \in ClausesOn(f.clauses, "rating") :
               f.clauses[i].op = ">=" /\ f.clauses[i].value = NumToString(prm.minRating)
     ELSE ClausesOn(f.clauses, "rating") = {}
  /\ \A i \in 1..Len(f.clauses) :
       f.clauses[i].field \in {"province", "district", "ward", "categories", "rating"}
  /\ f.undefined = (Len(f.clauses) = 0)

(* C19 as stated: the filter sent to the backend holds exactly one clause  *)
(* per supplied filter parameter and none for an absent one: geo-radius    *)
(* for a supplied coordinate pair (a coordinate of 0 included), equality   *)
(* on each supplied location field, any-of / IN on a non-empty category    *)
(* list, and rating >= minRating when minRating is supplied.               *)
C19_FilterExact ==
  /\ response.kind = "qdrantFilter" =>
       /\ QdrantFilterExact(response.prm, response.filter.must)
       /\ response.filter.undefined = (Len(response.filter.must) = 0)
  /\ response.kind = "meiliFilter" => MeiliFilterExact(response.prm, response.filter)

----------------------------------------------------------------------------
(* Properties of the full re-synchronisation *)

(* the full re-sync of the index the deployed revision maintains has just  *)
(* run and every operation of it succeeded                                  *)
ResyncSucceeded ==
  /\ lastEv.kind = (IF rev = "meili" THEN "syncMeili" ELSE "syncAll")
  /\ ~lastEv.threw

(* C20 as stated: after a full re-sync in which every operation succeeds,  *)
(* whatever the failed or missed syncs before it left in the index, the    *)
(* index holds an entry for a Place if and only if the Place is published  *)
(* and not deleted.                                                        *)
C20_ResyncRestores ==
  ResyncSucceeded => \A p \in Places : Indexed(p) <=> Live(p)

----------------------------------------------------------------------------
(* Properties of overlapping lifecycle handlers *)

InitRaceOnly == InitSync /\ rev = "meili" /\ IdleRace /\ IdleEmb /\ IdleUuid /\ IdleSearch /\ IdleCtl /\ IdleColl /\ IdleBoot
SpecRace == InitRaceOnly /\ [][NextRace]_vars

(* every handler that was started has completed *)
AllCompleted ==
  /\ \A h \in Handlers : hpc[h].st \in {"idle", "done"}
  /\ \E h \in Handlers : hpc[h].st = "done"

(* C21 as stated: for every interleaving of overlapping lifecycle handlers *)
(* of one Place, once all handlers have completed the keyword index holds  *)
(* the Place's document if and only if the Place is published and not     *)
(* deleted.                                                                *)
C21_OverlapConverges ==
  AllCompleted => (HasDoc(RacePlace) <=> Live(RacePlace))

----------------------------------------------------------------------------
(* Properties of the relevance order *)

(* the hits the keyword engine returns to the keyword-first search *)
EngineHits(cat, prm) ==
  MeiliSearch(IndexDocs(cat),
              [prm EXCEPT !.limit = prm.limit * 3, !.offset = 0,
                          !.sortBy = IF prm.sortBy \in {"rating", "popular"}
                                     THEN prm.sortBy ELSE "none"]).hits

PositionIn(s, x) == CHOOSE i \in 1..Len(s) : s[i] = x

(* C22 as stated: in the keyword-first search with sortBy = relevance the  *)
(* returned places appear in the order of the keyword engine's hits: a hit *)
(* that precedes another in the engine's result precedes it in the         *)
(* response.                                                               *)
C22_RelevanceOrderKept ==
  (response.kind = "keyword" /\ response.prm.sortBy = "relevance") =>
    LET hits == EngineHits(catalog, response.prm)
        data == response.result.data
    IN  \A i, j \in 1..Len(data) :
          i < j => PositionIn(hits, data[i]) < PositionIn(hits, data[j])

----------------------------------------------------------------------------
(* Properties of the adapters' error propagation *)

AdapterOps == {"meiliUpsert", "meiliDelete", "qdrantUpsert", "qdrantDelete"}

(* C23 as stated: every backend or initialisation error raised during an   *)
(* adapter operation, the lazy index initialisation of the keyword adapter *)
(* included, reaches the adapter's immediate caller.                       *)
C23_AdapterErrorsPropagate ==
  lastEv.kind \in AdapterOps => (lastEv.raised => lastEv.threw)

----------------------------------------------------------------------------
(* Properties of startup and first use of the vector collection *)

InitBootOnly == InitBoot /\ InitEmb /\ IdleSync /\ IdleUuid /\ IdleSearch /\ IdleCtl /\ IdleColl /\ IdleRace
SpecBoot == InitBootOnly /\ [][NextBoot]_vars

(* C24 as stated: when upsertPlace or searchPlaces is called while the     *)
(* collection does not exist, the adapter creates the collection and the   *)
(* operation then proceeds.                                                *)
C24_MissingCollectionHeals ==
  \A c \in InitCallers :
    (bootOps[c].op # "none" /\ bootOps[c].size = 0 /\ ~bootOps[c].fault) =>
      (~bootOps[c].threw /\ bootVectorSize # 0)

(* C25 as stated: a collection that exists with another vector size than   *)
(* the provider's dimension aborts startup, so that no upsert or search is *)
(* ever issued against such a collection.                                  *)
C25_NoOpOnMismatchedCollection ==
  /\ bootPc # "starting" => bootVectorSize \in {0, getVectorDimension(provider)}
  /\ \A c \in InitCallers :
       bootOps[c].op # "none" => bootOps[c].size \in {0, getVectorDimension(provider)}

----------------------------------------------------------------------------
(* Properties of the hybrid scoring *)

InitScoreOnly == IdleSearch /\ IdleSync /\ IdleEmb /\ IdleUuid /\ IdleCtl /\ IdleColl /\ IdleRace /\ IdleBoot
SpecScore == InitScoreOnly /\ [][NextScore]_vars

(* the query words that overlap a word of the text: one contains the other *)
OverlappingWords(q, t) ==
  {i \in 1..Len(split(q)) :
     \E j \in 1..Len(split(t)) :
       includes(split(t)[j], split(q)[i]) \/ includes(split(q)[i], split(t)[j])}

(* the value of the first rule that applies, as the rules are stated *)
RuleValue(query, text) ==
  LET q == trim(toLowerCase(query))
      t == trim(toLowerCase(text))
  IN  CASE t = q -> Rat(10, 10)
        [] t # q /\ startsWith(t, q) -> Rat(8, 10)
        [] ~startsWith(t, q) /\ includes(t, q) -> Rat(6, 10)
        [] ~includes(t, q) /\ OverlappingWords(q, t) # {} ->
             Rat(4 * Cardinality(OverlappingWords(q, t)), 10 * Len(split(q)))
        [] OTHER -> Rat(0, 1)

InUnit(r) == RatLe(Rat(0, 1), r) /\ RatLe(r, Rat(1, 1))

----------------------------------------------------------------------------
(* Keys of the hook's delete and of the sync path's upsert *)

(* a lifecycle event of p that removes p's point, with no call failing *)
HookRemoval(p) ==
  \/ DeletePlace(p, "none")
  \/ \E v \in DataVals : UpdatePlace(p, FALSE, v, "none")

(* C27: under the vector revisions, when a Place has a point that the sync
   path upserted and the hooks then run their delete for an unpublish or a
   delete of that Place, with no backend call failing, no point of the Place
   remains: the hook addresses the key the upsert wrote. *)
C27_HookDeleteKeyMatches ==
  [][\A p \in HookPlaces :
       (rev # "meili" /\ HasPoint(p) /\ HookRemoval(p)) => ~HasPoint(p)']_vars

----------------------------------------------------------------------------
(* Documents of the per-place and of the bulk synchronisation *)

(* the hooks re-synchronise the published Place p, unchanged, no call failing *)
ResaveUnchanged(p) ==
  /\ Live(p)
  /\ UpdatePlace(p, TRUE, store[p].data, "none")

(* C28: syncToMeili and syncMeili write the same document for the same
   Place, facet fields included: when a bulk synchronisation has just
   succeeded and the hooks then synchronise an unchanged published Place,
   the content of the keyword index stays the same. *)
C28_SameDocumentBothPaths ==
  [][\A p \in HookPlaces :
       (/\ rev = "meili"
        /\ lastEv.kind = "syncMeili"
        /\ ~lastEv.threw
        /\ ResaveUnchanged(p)) => kwIndex' = kwIndex]_vars

----------------------------------------------------------------------------
(* Properties of the search over an index with stale documents *)

InitStaleOnly == InitStale /\ IdleSync /\ IdleEmb /\ IdleUuid /\ IdleCtl /\ IdleColl /\ IdleRace /\ IdleBoot
SpecStale == InitStaleOnly /\ [][NextSearch]_vars

(* the identifiers of the candidates the index returned for a request *)
CandidateIds(kind, cat, prm) ==
  IF kind = "keyword"
  THEN LET hits == EngineHits(cat, prm) IN {hits[i] : i \in 1..Len(hits)}
  ELSE LET results == QdrantSearchPlaces(cat, [prm EXCEPT !.limit = prm.limit * 2])
       IN  {results[i].id : i \in 1..Len(results)}

(* the Place is a published Place of the content store *)
PublishedPlace(p) == catalog[p] \notin {Unlisted, Stale}

(* C29: every item of the data of a search response is a published Place
   of the content store whose identifier was among the candidates of the
   index, also when the index holds stale documents of unpublished or
   deleted Places, and data holds at most limit items. *)
C29_OnlyPublishedReturned ==
  response.kind \in {"keyword", "vector"} =>
    LET data == response.result.data
    IN  /\ Len(data) <= response.prm.limit
        /\ \A i \in 1..Len(data) :
             /\ PublishedPlace(data[i])
             /\ data[i] \in CandidateIds(response.kind, catalog, response.prm)

(* a response of each strategy whose candidates held a stale document and
   whose data holds a published Place *)
C29_Witness ==
  /\ response.kind \in {"keyword", "vector"}
  /\ \E p \in CandidateIds(response.kind, catalog, response.prm) : catalog[p] = Stale
  /\ Len(response.result.data) = response.prm.limit
  /\ Cardinality(CandidateIds(response.kind, catalog, response.prm)) > response.prm.limit

----------------------------------------------------------------------------
(* Properties of the score join of the vector-first search *)

SpecVectorDoc == InitSearchOnly /\ [][NextVectorDoc]_vars

(* the similarity score of the candidate of Place p in the vector result *)
CandidateScore(results, p) ==
  (CHOOSE r \in {results[i] : i \in 1..Len(results)} : r.documentId = DocId(p)).score

(* C30: in the vector-first search the searchScore attached to each
   returned Place equals the similarity score of that Place's candidate in
   the vector search result, so with sortBy = relevance the returned places
   are in descending order of their candidates' scores. *)
C30_ScoreJoinedToCandidate ==
  response.kind = "vectorDoc" =>
    LET data == response.result.data
        results == response.result.results
    IN  /\ \A i \in 1..Len(data) :
             response.result.scores[i] = CandidateScore(results, data[i])
        /\ response.prm.sortBy = "relevance" =>
             \A i, j \in 1..Len(data) :
               i < j => CandidateScore(results, data[i]) >= CandidateScore(results, data[j])

====
